---- MODULE Spec2Model ----
(***************************************************************************)
(* Stack: a concatenative, stack-oriented scripting language.              *)
(*                                                                         *)
(* The module models the interpreter of src/src/main.rs: the Type value    *)
(* model with its coercions, the lexer (analyze_syntax), the evaluator     *)
(* (evaluate_program) and the command dispatcher (execute_command).        *)
(*                                                                         *)
(* Texts are TLA+ strings; a character is a string of length one.          *)
(* Numbers: the model's Number domain is the integers (f64 values that are *)
(* whole numbers, which Rust prints without a fraction).  A numeric step   *)
(* whose f64 result is not a whole number (inexact division, negative      *)
(* exponent, division by zero, negative zero) lies outside the domain and  *)
(* is not taken by the model.  Program texts of the model contain no '.',  *)
(* no exponent form and none of the words inf, infinity, nan.              *)
(*                                                                         *)
(* Nested calls of evaluate_program (list literals, eval, if, while, map)  *)
(* are kept on an explicit control stack, frames, whose last element is    *)
(* the innermost call.                                                     *)
(***************************************************************************)
EXTENDS Integers, Sequences, FiniteSets, TLC

VARIABLES
    stack,      \* Executor.stack: the data stack, bottom first
    memory,     \* Executor.memory: variable name -> value
    mode,       \* Executor.mode: "Script" or "Debug"
    frames,     \* control stack of the evaluator (innermost call last)
    status,     \* "running", "panicked" (abort) or "exited" (process::exit)
    runs,       \* number of programs handed to evaluate_program so far
    program,    \* the text main handed to evaluate_program last
    threads,    \* the executors of the spawned threads, in spawn order
    stdout      \* the lines `print` wrote to the standard output, in order

vars == <<stack, memory, mode, frames, status, runs, program, threads, stdout>>

(***************************************************************************)
(* Bounds of the model.                                                    *)
(***************************************************************************)
MaxRuns == 2

\* Number results of larger magnitude lie outside the model's Number domain
MaxNumber == 10000

\* a `while` iteration that starts on a higher stack lies outside the model
MaxStack == 8

\* `range` results with more elements lie outside the model
MaxList == 6

\* counting loops start at -MaxStart .. MaxStart and run 0 .. MaxIterations times
MaxStart == 5

MaxIterations == 5

(***************************************************************************)
(* Small helpers.                                                          *)
(***************************************************************************)
Char(s, i) == SubSeq(s, i, i)

Max(a, b) == IF a > b THEN a ELSE b

Reverse(s) == [i \in 1..Len(s) |-> s[Len(s) + 1 - i]]

StartsWith(s, p) == Len(s) >= Len(p) /\ SubSeq(s, 1, Len(p)) = p

(***************************************************************************)
(* enum Type                                                               *)
(***************************************************************************)
Number(i) == [type |-> "Number", val |-> i]

String(s) == [type |-> "String", val |-> s]

Bool(b) == [type |-> "Bool", val |-> b]

List(l) == [type |-> "List", val |-> l]

Error(e) == [type |-> "Error", val |-> e]

\* Object(name, object): object maps the names of the properties to values
Object(name, object) == [type |-> "Object", val |-> [name |-> name, object |-> object]]

(***************************************************************************)
(* f64 <-> text, on the whole-number domain.                               *)
(***************************************************************************)
Digits == <<"0", "1", "2", "3", "4", "5", "6", "7", "8", "9">>

IsDigit(c) == \E d \in 1..10 : Digits[d] = c

DigitVal(c) == (CHOOSE d \in 1..10 : Digits[d] = c) - 1

RECURSIVE DigitsToNat(_)
DigitsToNat(s) ==
    IF Len(s) = 0 THEN 0
    ELSE 10 * DigitsToNat(SubSeq(s, 1, Len(s) - 1)) + DigitVal(Char(s, Len(s)))

RECURSIVE NatToDigits(_)
NatToDigits(n) ==
    IF n < 10 THEN Digits[n + 1]
    ELSE NatToDigits(n \div 10) \o Digits[(n % 10) + 1]

\* f64::to_string of a whole number
\* the digits without the sign
NumberToStringUnsigned(i) == NatToDigits(IF i < 0 THEN 0 - i ELSE i)

NumberToString(i) == IF i < 0 THEN "-" \o NatToDigits(0 - i) ELSE NatToDigits(i)

\* the unsigned part of a decimal literal: one or more digits
IsDigits(s) == Len(s) > 0 /\ \A i \in 1..Len(s) : IsDigit(Char(s, i))

\* str::parse::<f64>: an optional sign followed by digits
ParseOk(s) ==
    IF Len(s) > 0 /\ Char(s, 1) \in {"+", "-"}
    THEN IsDigits(Tail(s))
    ELSE IsDigits(s)

ParseVal(s) ==
    IF Char(s, 1) = "-" THEN 0 - DigitsToNat(Tail(s))
    ELSE IF Char(s, 1) = "+" THEN DigitsToNat(Tail(s))
    ELSE DigitsToNat(s)

\* `f as usize`: a saturating cast, negative values become 0
AsUsize(f) == IF f < 0 THEN 0 ELSE f

(***************************************************************************)
(* impl Type: display and the four coercions.                              *)
(***************************************************************************)
RECURSIVE JoinStrings(_, _)
JoinStrings(l, key) ==
    IF Len(l) = 0 THEN ""
    ELSE IF Len(l) = 1 THEN l[1]
    ELSE l[1] \o key \o JoinStrings(Tail(l), key)

RECURSIVE display(_)
display(v) ==
    CASE v.type = "Number" -> NumberToString(v.val)
      [] v.type = "String" -> "(" \o v.val \o ")"
      [] v.type = "Bool" -> IF v.val THEN "true" ELSE "false"
      [] v.type = "List" ->
            "[" \o JoinStrings([i \in 1..Len(v.val) |-> display(v.val[i])], " ") \o "]"
      [] v.type = "Error" -> "error:" \o v.val
      [] v.type = "Object" -> "Object<" \o v.val.name \o ">"

get_string(v) ==
    CASE v.type = "String" -> v.val
      [] v.type = "Number" -> NumberToString(v.val)
      [] v.type = "Bool" -> IF v.val THEN "true" ELSE "false"
      [] v.type = "List" -> display(v)
      [] v.type = "Error" -> "error:" \o v.val
      [] v.type = "Object" -> "Object<" \o v.val.name \o ">"

get_number(v) ==
    CASE v.type = "String" -> IF ParseOk(v.val) THEN ParseVal(v.val) ELSE 0
      [] v.type = "Number" -> v.val
      [] v.type = "Bool" -> IF v.val THEN 1 ELSE 0
      [] v.type = "List" -> Len(v.val)
      [] v.type = "Error" -> IF ParseOk(v.val) THEN ParseVal(v.val) ELSE 0
      [] v.type = "Object" -> Cardinality(DOMAIN v.val.object)

\* the table with an Object true when it has a property
get_bool_object_filled(v) ==
    CASE v.type = "String" -> v.val # ""
      [] v.type = "Number" -> v.val # 0
      [] v.type = "Bool" -> v.val
      [] v.type = "List" -> Len(v.val) # 0
      [] v.type = "Error" -> v.val = "true"
      [] v.type = "Object" -> DOMAIN v.val.object # {}

get_bool(v) ==
    CASE v.type = "String" -> v.val # ""
      [] v.type = "Number" -> v.val # 0
      [] v.type = "Bool" -> v.val
      [] v.type = "List" -> Len(v.val) # 0
      [] v.type = "Error" -> v.val = "true"
      [] v.type = "Object" -> DOMAIN v.val.object = {}

get_list(v) ==
    CASE v.type = "String" -> [i \in 1..Len(v.val) |-> String(Char(v.val, i))]
      [] v.type = "Number" -> <<v>>
      [] v.type = "Bool" -> <<v>>
      [] v.type = "List" -> v.val
      [] v.type = "Error" -> <<v>>

\* get_list of an Object takes object.values(), whose order the HashMap does
\* not fix; no command of this model asks for the list of an Object.

(***************************************************************************)
(* Executor::analyze_syntax: the lexer.                                    *)
(* IdeographicSpace stands for U+3000, which a TLA+ string cannot hold.    *)
(***************************************************************************)
IdeographicSpace == "\f"

\* the replacement of the line breaks only: tabs and U+3000 are left alone
ReplaceLineBreaks(c) == IF c \in {"\n", "\r"} THEN " " ELSE c

\* code.replace(['\n', '\t', '\r', U+3000], " "), for one character
ReplaceWhitespace(c) ==
    IF c \in {"\n", "\t", "\r", IdeographicSpace} THEN " " ELSE c

LexInit ==
    [syntax |-> <<>>, buffer |-> "", in_brackets |-> 0, in_parentheses |-> 0,
     in_hash |-> FALSE]

\* the lexer whose separator arm emits the buffer without `!buffer.is_empty()`
LexCharEager(st, c) ==
    CASE c = "(" ->
            [st EXCEPT !.in_brackets = @ + 1, !.buffer = @ \o "("]
      [] c = ")" ->
            [st EXCEPT !.in_brackets = @ - 1, !.buffer = @ \o ")"]
      [] c = "#" /\ ~st.in_hash ->
            [st EXCEPT !.in_hash = TRUE, !.buffer = @ \o "#"]
      [] c = "#" /\ st.in_hash ->
            [st EXCEPT !.in_hash = FALSE, !.buffer = @ \o "#"]
      [] c = "[" /\ st.in_brackets = 0 ->
            [st EXCEPT !.in_parentheses = @ + 1, !.buffer = @ \o "["]
      [] c = "]" /\ st.in_brackets = 0 ->
            [st EXCEPT !.in_parentheses = @ - 1, !.buffer = @ \o "]"]
      [] c = " " /\ ~st.in_hash /\ st.in_parentheses = 0 /\ st.in_brackets = 0 ->
            [st EXCEPT !.syntax = Append(@, st.buffer), !.buffer = ""]
      [] OTHER ->
            [st EXCEPT !.buffer = @ \o c]

\* one iteration of `for c in code.chars()`: the match arms in source order
LexChar(st, c) ==
    CASE c = "(" ->
            [st EXCEPT !.in_brackets = @ + 1, !.buffer = @ \o "("]
      [] c = ")" ->
            [st EXCEPT !.in_brackets = @ - 1, !.buffer = @ \o ")"]
      [] c = "#" /\ ~st.in_hash ->
            [st EXCEPT !.in_hash = TRUE, !.buffer = @ \o "#"]
      [] c = "#" /\ st.in_hash ->
            [st EXCEPT !.in_hash = FALSE, !.buffer = @ \o "#"]
      [] c = "[" /\ st.in_brackets = 0 ->
            [st EXCEPT !.in_parentheses = @ + 1, !.buffer = @ \o "["]
      [] c = "]" /\ st.in_brackets = 0 ->
            [st EXCEPT !.in_parentheses = @ - 1, !.buffer = @ \o "]"]
      [] c = " " /\ ~st.in_hash /\ st.in_parentheses = 0 /\ st.in_brackets = 0 ->
            IF st.buffer # ""
            THEN [st EXCEPT !.syntax = Append(@, st.buffer), !.buffer = ""]
            ELSE st
      [] OTHER ->
            [st EXCEPT !.buffer = @ \o c]

\* `for c in code.chars()` over the characters lo..hi of code.  The range is
\* split in halves; the state after the first half is a value (the element
\* of a singleton) before the second half starts from it, which keeps the
\* depth of evaluation logarithmic in the length of the text.
RECURSIVE LexLoop(_, _, _, _)
LexLoop(st, code, lo, hi) ==
    IF lo > hi THEN st
    ELSE IF lo = hi THEN LexChar(st, ReplaceWhitespace(Char(code, lo)))
    ELSE LET mid == (lo + hi) \div 2
         IN  CHOOSE last \in {LexLoop(first, code, mid + 1, hi) :
                                 first \in {LexLoop(st, code, lo, mid)}} : TRUE

analyze_syntax(code) ==
    LET st == LexLoop(LexInit, code, 1, Len(code))
    IN  IF st.buffer # "" THEN Append(st.syntax, st.buffer) ELSE st.syntax

(***************************************************************************)
(* The executor as a value: e.stack, e.memory, e.frames, e.status, e.mode, *)
(* e.spawned, the executors of the threads the step has started, and       *)
(* e.stdout, the standard output with the lines the step has written (the  *)
(* trace lines of log_print are not kept in it).                           *)
(* The operators below map an executor to the set of executors one step    *)
(* of the code can produce (empty when the f64 result lies outside the     *)
(* model's Number domain, two elements when the file system decides).      *)
(***************************************************************************)
Self ==
    [stack |-> stack, memory |-> memory, frames |-> frames, status |-> status,
     mode |-> mode, spawned |-> <<>>, stdout |-> stdout]

\* Executor::pop_stack, called k times in a row: Arg(s, k) is the value the
\* k-th call returns, Drop(s, k) is the stack that is left
Arg(s, k) == IF Len(s) >= k THEN s[Len(s) - k + 1] ELSE String("")

Drop(s, k) == SubSeq(s, 1, Max(0, Len(s) - k))

Push(e, k, v) == [e EXCEPT !.stack = Append(Drop(@, k), v)]

\* memory.entry(name).and_modify(|value| *value = data).or_insert(data)
Upsert(m, name, data) ==
    [x \in DOMAIN m \cup {name} |-> IF x = name THEN data ELSE m[x]]

ProgramFrame(code) == [kind |-> "program", syntax |-> analyze_syntax(code)]

\* the call self.evaluate_program(code): a new innermost frame
evaluate_program(e, code) == [e EXCEPT !.frames = Append(@, ProgramFrame(code))]

Panic(e) == [e EXCEPT !.status = "panicked"]

(***************************************************************************)
(* Executor::execute_command, one operator per match arm.                  *)
(***************************************************************************)
Abs(i) == IF i < 0 THEN 0 - i ELSE i

\* a^b, cut off once the magnitude leaves the Number domain
RECURSIVE Power(_, _)
Power(a, b) ==
    IF b = 0 THEN 1
    ELSE LET p == Power(a, b - 1)
         IN  IF Abs(p) > MaxNumber THEN p ELSE a * p

\* the step is taken only when the Number it pushes is in the domain
InDomain(e) ==
    IF Abs(e.stack[Len(e.stack)].val) <= MaxNumber THEN {e} ELSE {}

cmd_add(e) ==
    LET b == get_number(Arg(e.stack, 1))
        a == get_number(Arg(e.stack, 2))
    IN  InDomain(Push(e, 2, Number(a + b)))

\* sub with its operands exchanged: b - a
cmd_sub_swapped(e) ==
    LET b == get_number(Arg(e.stack, 1))
        a == get_number(Arg(e.stack, 2))
    IN  InDomain(Push(e, 2, Number(b - a)))

cmd_sub(e) ==
    LET b == get_number(Arg(e.stack, 1))
        a == get_number(Arg(e.stack, 2))
    IN  InDomain(Push(e, 2, Number(a - b)))

cmd_mul(e) ==
    LET b == get_number(Arg(e.stack, 1))
        a == get_number(Arg(e.stack, 2))
    IN  IF (a = 0 /\ b < 0) \/ (a < 0 /\ b = 0) THEN {}
        ELSE IF Abs(a) > MaxNumber \/ Abs(b) > MaxNumber THEN {}
        ELSE InDomain(Push(e, 2, Number(a * b)))

cmd_div(e) ==
    LET b == get_number(Arg(e.stack, 1))
        a == get_number(Arg(e.stack, 2))
        q == Abs(a) \div Abs(b)
    IN  IF b = 0 \/ (a = 0 /\ b < 0) THEN {}
        ELSE IF Abs(a) % Abs(b) # 0 THEN {}
        ELSE {Push(e, 2, Number(IF (a < 0) = (b < 0) THEN q ELSE 0 - q))}

cmd_mod(e) ==
    LET b == get_number(Arg(e.stack, 1))
        a == get_number(Arg(e.stack, 2))
        r == Abs(a) % Abs(b)
    IN  IF b = 0 THEN {}
        ELSE IF a < 0 /\ r = 0 THEN {}
        ELSE {Push(e, 2, Number(IF a < 0 THEN 0 - r ELSE r))}

cmd_pow(e) ==
    LET b == get_number(Arg(e.stack, 1))
        a == get_number(Arg(e.stack, 2))
    IN  IF b < 0 THEN {}
        ELSE IF Abs(a) <= 1
        THEN {Push(e, 2, Number(IF b = 0 \/ a = 1 THEN 1
                                ELSE IF a = 0 THEN 0
                                ELSE IF b % 2 = 0 THEN 1 ELSE 0 - 1))}
        ELSE IF b > 31 THEN {}
        ELSE InDomain(Push(e, 2, Number(Power(a, b))))

cmd_equal(e) ==
    LET b == get_string(Arg(e.stack, 1))
        a == get_string(Arg(e.stack, 2))
    IN  {Push(e, 2, Bool(a = b))}

cmd_less(e) ==
    LET b == get_number(Arg(e.stack, 1))
        a == get_number(Arg(e.stack, 2))
    IN  {Push(e, 2, Bool(a < b))}

\* File::create and write_all succeed or fail as the file system decides
cmd_write_file(e) ==
    { [e EXCEPT !.stack = Append(Drop(@, 1), Error("create-file"))],
      [e EXCEPT !.stack = Drop(@, 2)],
      [e EXCEPT !.stack = Append(Drop(@, 2), Error("write-file"))] }

\* print that leaves the value on the stack in debug mode
cmd_print_traced(e) ==
    LET a == get_string(Arg(e.stack, 1))
    IN  IF e.mode = "Debug"
        THEN {[e EXCEPT !.stdout = Append(@, "[Output]: " \o a)]}
        ELSE {[e EXCEPT !.stack = Drop(@, 1), !.stdout = Append(@, a)]}

\* `if let Mode::Debug = self.mode { println!("[Output]: {a}") } else { println!("{a}") }`
cmd_print(e) ==
    LET a == get_string(Arg(e.stack, 1))
        popped == [e EXCEPT !.stack = Drop(@, 1)]
    IN  IF e.mode = "Debug"
        THEN {[popped EXCEPT !.stdout = Append(@, "[Output]: " \o a)]}
        ELSE {[popped EXCEPT !.stdout = Append(@, a)]}

cmd_eval(e) ==
    LET code == get_string(Arg(e.stack, 1))
    IN  {evaluate_program([e EXCEPT !.stack = Drop(@, 1)], code)}

\* if with its two texts exchanged
cmd_if_swapped(e) ==
    LET condition == get_bool(Arg(e.stack, 1))
        code_else == get_string(Arg(e.stack, 2))
        code_if == get_string(Arg(e.stack, 3))
        popped == [e EXCEPT !.stack = Drop(@, 3)]
    IN  IF condition THEN {evaluate_program(popped, code_else)}
        ELSE {evaluate_program(popped, code_if)}

cmd_if(e) ==
    LET condition == get_bool(Arg(e.stack, 1))
        code_else == get_string(Arg(e.stack, 2))
        code_if == get_string(Arg(e.stack, 3))
        popped == [e EXCEPT !.stack = Drop(@, 3)]
    IN  IF condition THEN {evaluate_program(popped, code_if)}
        ELSE {evaluate_program(popped, code_else)}

\* while with its two texts popped in the other order
cmd_while_swapped(e) ==
    LET code == get_string(Arg(e.stack, 1))
        cond == get_string(Arg(e.stack, 2))
        frame == [kind |-> "while", cond |-> cond, code |-> code, phase |-> "cond"]
    IN  {evaluate_program([e EXCEPT !.stack = Drop(@, 2),
                                    !.frames = Append(@, frame)], cond)}

\* `while { evaluate_program(cond); pop_stack().get_bool() } { evaluate_program(code) }`
\* the frame remembers both texts; phase "cond" while the condition text runs
cmd_while(e) ==
    LET cond == get_string(Arg(e.stack, 1))
        code == get_string(Arg(e.stack, 2))
        frame == [kind |-> "while", cond |-> cond, code |-> code, phase |-> "cond"]
    IN  {evaluate_program([e EXCEPT !.stack = Drop(@, 2),
                                    !.frames = Append(@, frame)], cond)}

\* exit that pops the status and returns to the evaluator
cmd_exit_returns(e) == {[e EXCEPT !.stack = Drop(@, 1)]}

cmd_exit(e) == {[e EXCEPT !.stack = Drop(@, 1), !.status = "exited"]}

cmd_get(e) ==
    LET index == AsUsize(get_number(Arg(e.stack, 1)))
        list == get_list(Arg(e.stack, 2))
    IN  IF Len(list) > index THEN {Push(e, 2, list[index + 1])}
        ELSE {Push(e, 2, Error("index-out-range"))}

cmd_set(e) ==
    LET value == Arg(e.stack, 1)
        index == AsUsize(get_number(Arg(e.stack, 2)))
        list == get_list(Arg(e.stack, 3))
    IN  IF Len(list) > index
        THEN {Push(e, 3, List([list EXCEPT ![index + 1] = value]))}
        ELSE {Push(e, 3, Error("index-out-range"))}

cmd_del(e) ==
    LET index == AsUsize(get_number(Arg(e.stack, 1)))
        list == get_list(Arg(e.stack, 2))
    IN  IF Len(list) > index
        THEN {Push(e, 2, List(SubSeq(list, 1, index) \o SubSeq(list, index + 2, Len(list))))}
        ELSE {Push(e, 2, Error("index-out-range"))}

\* Vec::insert panics when index > len
cmd_insert(e) ==
    LET data == Arg(e.stack, 1)
        index == AsUsize(get_number(Arg(e.stack, 2)))
        list == get_list(Arg(e.stack, 3))
    IN  IF index > Len(list) THEN {Panic([e EXCEPT !.stack = Drop(@, 3)])}
        ELSE {Push(e, 3, List(SubSeq(list, 1, index) \o <<data>>
                                 \o SubSeq(list, index + 1, Len(list))))}

\* `list.push(data)`
cmd_append(e) ==
    LET data == Arg(e.stack, 1)
        list == get_list(Arg(e.stack, 2))
    IN  {Push(e, 2, List(Append(list, data)))}

\* (min as usize..max as usize).step_by(step as usize): step_by(0) panics
RECURSIVE RangeFrom(_, _, _)
RangeFrom(i, max, step) ==
    IF i >= max THEN <<>> ELSE <<Number(i)>> \o RangeFrom(i + step, max, step)

cmd_range(e) ==
    LET step == AsUsize(get_number(Arg(e.stack, 1)))
        max == AsUsize(get_number(Arg(e.stack, 2)))
        min == AsUsize(get_number(Arg(e.stack, 3)))
    IN  IF step = 0 THEN {Panic([e EXCEPT !.stack = Drop(@, 3)])}
        ELSE IF max > min + MaxList * step THEN {}
        ELSE {Push(e, 3, List(RangeFrom(min, max, step)))}

\* map with the variable name and the body text popped in the other order
cmd_map_swapped(e) ==
    LET name == get_string(Arg(e.stack, 1))
        code == get_string(Arg(e.stack, 2))
        list == get_list(Arg(e.stack, 3))
        frame == [kind |-> "map", code |-> code, name |-> name, list |-> list,
                  index |-> 0, result_list |-> <<>>, phase |-> "next"]
    IN  {[e EXCEPT !.stack = Drop(@, 3), !.frames = Append(@, frame)]}

\* the frame holds the loop state of `for x in list.iter()`
cmd_map(e) ==
    LET code == get_string(Arg(e.stack, 1))
        name == get_string(Arg(e.stack, 2))   \* `vars` in the source
        list == get_list(Arg(e.stack, 3))
        frame == [kind |-> "map", code |-> code, name |-> name, list |-> list,
                  index |-> 0, result_list |-> <<>>, phase |-> "next"]
    IN  {[e EXCEPT !.stack = Drop(@, 3), !.frames = Append(@, frame)]}

\* filter pops code, vars and list like map; its loop is FilterNext,
\* FilterCollect and FilterEnd
cmd_filter(e) ==
    LET code == get_string(Arg(e.stack, 1))
        name == get_string(Arg(e.stack, 2))   \* `vars` in the source
        list == get_list(Arg(e.stack, 3))
        frame == [kind |-> "filter", code |-> code, name |-> name, list |-> list,
                  index |-> 0, result_list |-> <<>>, phase |-> "next"]
    IN  {[e EXCEPT !.stack = Drop(@, 3), !.frames = Append(@, frame)]}

cmd_pop(e) == {[e EXCEPT !.stack = Drop(@, 1)]}

\* var that inserts a new binding but leaves an existing one as it is
cmd_var_keep(e) ==
    LET name == get_string(Arg(e.stack, 1))
        data == Arg(e.stack, 2)
    IN  {[e EXCEPT !.stack = Drop(@, 2),
                   !.memory = IF name \in DOMAIN @ THEN @ ELSE Upsert(@, name, data)]}

cmd_var(e) ==
    LET name == get_string(Arg(e.stack, 1))
        data == Arg(e.stack, 2)
    IN  {[e EXCEPT !.stack = Drop(@, 2), !.memory = Upsert(@, name, data)]}

\* copy that pushes the value once
cmd_copy_once(e) ==
    LET data == Arg(e.stack, 1)
    IN  {[e EXCEPT !.stack = Drop(@, 1) \o <<data>>]}

cmd_copy(e) ==
    LET data == Arg(e.stack, 1)
    IN  {[e EXCEPT !.stack = Drop(@, 1) \o <<data, data>>]}

\* swap that pushes the top value twice
cmd_swap_overwrite(e) ==
    LET b == Arg(e.stack, 1)
    IN  {[e EXCEPT !.stack = Drop(@, 2) \o <<b, b>>]}

cmd_swap(e) ==
    LET b == Arg(e.stack, 1)
        a == Arg(e.stack, 2)
    IN  {[e EXCEPT !.stack = Drop(@, 2) \o <<b, a>>]}

\* free that empties the environment
cmd_free_all(e) == {[e EXCEPT !.stack = Drop(@, 1), !.memory = <<>>]}

cmd_free(e) ==
    LET name == get_string(Arg(e.stack, 1))
    IN  {[e EXCEPT !.stack = Drop(@, 1),
                   !.memory = [x \in DOMAIN @ \ {name} |-> @[x]]]}

\* thread whose clone is taken before the code text is popped
cmd_thread_unpopped(e) ==
    LET code == get_string(Arg(e.stack, 1))
        executor == [e EXCEPT !.frames = <<ProgramFrame(code)>>, !.spawned = <<>>]
    IN  {[e EXCEPT !.stack = Drop(@, 1), !.spawned = Append(@, executor)]}

\* `let mut executor = self.clone(); thread::spawn(move || executor.evaluate_program(code))`
\* the clone owns copies of the stack, the memory and the mode
cmd_thread(e) ==
    LET code == get_string(Arg(e.stack, 1))
        popped == [e EXCEPT !.stack = Drop(@, 1)]
        executor == [popped EXCEPT !.frames = <<ProgramFrame(code)>>, !.spawned = <<>>]
    IN  {[popped EXCEPT !.spawned = Append(@, executor)]}

\* cast that goes through the text of the value on the way to a list
cmd_cast_text(e) ==
    LET types == get_string(Arg(e.stack, 1))
        value == Arg(e.stack, 2)
    IN  {Push(e, 2, CASE types = "number" -> Number(get_number(value))
                      [] types = "string" -> String(get_string(value))
                      [] types = "bool" -> Bool(get_bool(value))
                      [] types = "list" -> List(get_list(String(get_string(value))))
                      [] types = "error" -> Error(get_string(value))
                      [] OTHER -> value)}

cmd_cast(e) ==
    LET types == get_string(Arg(e.stack, 1))
        value == Arg(e.stack, 2)
    IN  {Push(e, 2, CASE types = "number" -> Number(get_number(value))
                      [] types = "string" -> String(get_string(value))
                      [] types = "bool" -> Bool(get_bool(value))
                      [] types = "list" -> List(get_list(value))
                      [] types = "error" -> Error(get_string(value))
                      [] OTHER -> value)}

\* the characters of the model's texts in the order of their code points
Alphabet == " (),-0123456789:[]abcdefghijklmnopqrstuvwxyz"

CharCode(c) == CHOOSE i \in 1..Len(Alphabet) : Char(Alphabet, i) = c

\* the shorter text first, whatever the characters
StringLeqByLength(a, b) == Len(a) <= Len(b)

\* impl Ord for String: a <= b
RECURSIVE StringLeq(_, _)
StringLeq(a, b) ==
    IF Len(a) = 0 THEN TRUE
    ELSE IF Len(b) = 0 THEN FALSE
    ELSE IF Char(a, 1) = Char(b, 1) THEN StringLeq(Tail(a), Tail(b))
    ELSE CharCode(Char(a, 1)) < CharCode(Char(b, 1))

\* Vec<String>::sort, by insertion
RECURSIVE SortStrings(_)
SortStrings(l) ==
    IF Len(l) = 0 THEN <<>>
    ELSE LET rest == SortStrings(Tail(l))
             smaller == {i \in 1..Len(rest) : ~StringLeq(l[1], rest[i])}
             k == Cardinality(smaller)
         IN  SubSeq(rest, 1, k) \o <<l[1]>> \o SubSeq(rest, k + 1, Len(rest))

cmd_sort(e) ==
    LET data == get_list(Arg(e.stack, 1))
        list == SortStrings([i \in 1..Len(data) |-> get_string(data[i])])
    IN  {Push(e, 1, List([i \in 1..Len(list) |-> String(list[i])]))}

\* str::split(key) for a key that is not empty: the pieces between the
\* matches of key, found from left to right; from is where the piece starts
RECURSIVE SplitFrom(_, _, _, _)
SplitFrom(text, key, from, i) ==
    IF i + Len(key) - 1 > Len(text) THEN <<SubSeq(text, from, Len(text))>>
    ELSE IF SubSeq(text, i, i + Len(key) - 1) = key
    THEN <<SubSeq(text, from, i - 1)>>
             \o SplitFrom(text, key, i + Len(key), i + Len(key))
    ELSE SplitFrom(text, key, from, i + 1)

\* a split that leaves out the empty pieces
SplitStringSkipEmpty(text, key) ==
    IF Len(key) = 0 THEN [i \in 1..Len(text) |-> Char(text, i)]
    ELSE LET pieces == SplitFrom(text, key, 1, 1)
             kept == {i \in 1..Len(pieces) : pieces[i] # ""}
         IN  [k \in 1..Cardinality(kept) |->
                 pieces[CHOOSE i \in kept : Cardinality({j \in kept : j <= i}) = k]]

\* str::split(key): the empty key matches at every character boundary
SplitString(text, key) ==
    IF Len(key) = 0
    THEN <<"">> \o [i \in 1..Len(text) |-> Char(text, i)] \o <<"">>
    ELSE SplitFrom(text, key, 1, 1)

cmd_split(e) ==
    LET key == get_string(Arg(e.stack, 1))
        text == get_string(Arg(e.stack, 2))
        pieces == SplitString(text, key)
    IN  {Push(e, 2, List([i \in 1..Len(pieces) |-> String(pieces[i])]))}

cmd_join(e) ==
    LET key == get_string(Arg(e.stack, 1))
        list == get_list(Arg(e.stack, 2))
    IN  {Push(e, 2, String(JoinStrings([i \in 1..Len(list) |-> get_string(list[i])], key)))}

cmd_and(e) ==
    LET b == get_bool(Arg(e.stack, 1))
        a == get_bool(Arg(e.stack, 2))
    IN  {Push(e, 2, Bool(a /\ b))}

cmd_or(e) ==
    LET b == get_bool(Arg(e.stack, 1))
        a == get_bool(Arg(e.stack, 2))
    IN  {Push(e, 2, Bool(a \/ b))}

cmd_not(e) ==
    LET b == get_bool(Arg(e.stack, 1))
    IN  {Push(e, 1, Bool(~b))}

\* method that evaluates the text without binding self
cmd_method_unbound(e) ==
    LET method == get_string(Arg(e.stack, 1))
        receiver == Arg(e.stack, 2)
        popped == [e EXCEPT !.stack = Drop(@, 2)]
    IN  IF receiver.type = "Object"
        THEN {evaluate_program(popped,
                  IF method \in DOMAIN receiver.val.object
                  THEN get_string(receiver.val.object[method]) ELSE "")}
        ELSE {Push(popped, 0, Error("not-object"))}

\* self is bound to a copy of the receiver, then the text of the property
\* is evaluated; nothing follows the return of evaluate_program
cmd_method(e) ==
    LET method == get_string(Arg(e.stack, 1))
        receiver == Arg(e.stack, 2)
        popped == [e EXCEPT !.stack = Drop(@, 2)]
    IN  IF receiver.type = "Object"
        THEN {evaluate_program(
                  [popped EXCEPT !.memory = Upsert(@, "self", receiver)],
                  IF method \in DOMAIN receiver.val.object
                  THEN get_string(receiver.val.object[method]) ELSE "")}
        ELSE {Push(popped, 0, Error("not-object"))}

\* modify that writes through to every binding that holds the receiver
cmd_modify_bound(e) ==
    LET data == Arg(e.stack, 1)
        property == get_string(Arg(e.stack, 2))
        receiver == Arg(e.stack, 3)
        modified == Object(receiver.val.name, Upsert(receiver.val.object, property, data))
    IN  IF receiver.type = "Object"
        THEN {[e EXCEPT !.stack = Append(Drop(@, 3), modified),
                        !.memory = [x \in DOMAIN @ |->
                                       IF @[x] = receiver THEN modified ELSE @[x]]]}
        ELSE {Push(e, 3, Error("not-object"))}

\* `value.entry(property).and_modify(|value| *value = data.clone()).or_insert(data.clone())`
\* on the popped Object, which is pushed back
cmd_modify(e) ==
    LET data == Arg(e.stack, 1)
        property == get_string(Arg(e.stack, 2))
        receiver == Arg(e.stack, 3)
    IN  IF receiver.type = "Object"
        THEN {Push(e, 3, Object(receiver.val.name,
                                Upsert(receiver.val.object, property, data)))}
        ELSE {Push(e, 3, Error("not-object"))}

\* the loop of instance that leaves a property out when data is short
RECURSIVE instance_loop_lenient(_, _, _, _, _)
instance_loop_lenient(e, name, items, data, st) ==
    IF Len(items) = 0 THEN Push(e, 0, Object(name, st.object))
    ELSE LET item == get_list(items[1])
         IN  IF Len(item) = 1
             THEN IF st.index < Len(data)
                  THEN instance_loop_lenient(e, name, Tail(items), data,
                           [index |-> st.index + 1,
                            object |-> Upsert(st.object, get_string(item[1]),
                                              data[st.index + 1])])
                  ELSE instance_loop_lenient(e, name, Tail(items), data, st)
             ELSE IF Len(item) >= 2
             THEN instance_loop_lenient(e, name, Tail(items), data,
                      [st EXCEPT !.object = Upsert(@, get_string(item[1]), item[2])])
             ELSE instance_loop_lenient(Push(e, 0, Error("instance-default")), name,
                      Tail(items), data, st)

\* `for item in class[1..]`: a property given by name takes the next value
\* of data, a property given with a value takes that value; st holds index
\* and object
RECURSIVE instance_loop(_, _, _, _, _)
instance_loop(e, name, items, data, st) ==
    IF Len(items) = 0 THEN Push(e, 0, Object(name, st.object))
    ELSE LET item == get_list(items[1])
         IN  IF Len(item) = 1
             THEN IF st.index < Len(data)
                  THEN instance_loop(e, name, Tail(items), data,
                           [index |-> st.index + 1,
                            object |-> Upsert(st.object, get_string(item[1]),
                                              data[st.index + 1])])
                  ELSE Push(e, 0, Error("instance-shortage"))
             ELSE IF Len(item) >= 2
             THEN instance_loop(e, name, Tail(items), data,
                      [st EXCEPT !.object = Upsert(@, get_string(item[1]), item[2])])
             ELSE instance_loop(Push(e, 0, Error("instance-default")), name,
                      Tail(items), data, st)

cmd_instance(e) ==
    LET data == get_list(Arg(e.stack, 1))
        class == get_list(Arg(e.stack, 2))
        popped == [e EXCEPT !.stack = Drop(@, 2)]
    IN  IF Len(class) = 0 THEN {Push(popped, 0, Error("instance-name"))}
        ELSE {instance_loop(popped, get_string(class[1]), Tail(class), data,
                            [index |-> 0, object |-> <<>>])}

\* the position of the last match instead of the first
cmd_index_last(e) ==
    LET findhint == get_string(Arg(e.stack, 1))
        findtarget == get_list(Arg(e.stack, 2))
        found == {i \in 1..Len(findtarget) : findhint = get_string(findtarget[i])}
    IN  IF found # {}
        THEN {Push(e, 2, Number((CHOOSE i \in found : \A j \in found : i >= j) - 1))}
        ELSE {Push(e, 2, Error("item-not-found"))}

cmd_index(e) ==
    LET findhint == get_string(Arg(e.stack, 1))
        findtarget == get_list(Arg(e.stack, 2))
        found == {i \in 1..Len(findtarget) : findhint = get_string(findtarget[i])}
    IN  IF found # {}
        THEN {Push(e, 2, Number((CHOOSE i \in found : \A j \in found : i <= j) - 1))}
        ELSE {Push(e, 2, Error("item-not-found"))}

\* the frame holds the loop state of `for x in list.iter()`; acc is bound
\* to "" before the loop
cmd_reduce(e) ==
    LET code == get_string(Arg(e.stack, 1))
        now == get_string(Arg(e.stack, 2))
        acc == get_string(Arg(e.stack, 3))
        list == get_list(Arg(e.stack, 4))
        frame == [kind |-> "reduce", code |-> code, now |-> now, acc |-> acc,
                  list |-> list, index |-> 0, phase |-> "next"]
    IN  {[e EXCEPT !.stack = Drop(@, 4),
                   !.memory = Upsert(@, acc, String("")),
                   !.frames = Append(@, frame)]}

\* `_ => self.stack.push(Type::String(command))`
cmd_other(e, command) == {Push(e, 0, String(command))}

Commands ==
    {"add", "sub", "mul", "div", "mod", "pow", "equal", "less", "write-file",
     "eval", "if", "while", "exit", "get", "set", "del", "insert", "range",
     "map", "pop", "var", "copy", "swap", "free", "thread", "cast", "sort",
     "split", "join", "index", "reduce", "instance", "and", "or", "not",
     "method", "append", "modify", "print", "filter"}

execute_command(e, command) ==
    CASE command = "add" -> cmd_add(e)
      [] command = "sub" -> cmd_sub(e)
      [] command = "mul" -> cmd_mul(e)
      [] command = "div" -> cmd_div(e)
      [] command = "mod" -> cmd_mod(e)
      [] command = "pow" -> cmd_pow(e)
      [] command = "equal" -> cmd_equal(e)
      [] command = "less" -> cmd_less(e)
      [] command = "write-file" -> cmd_write_file(e)
      [] command = "eval" -> cmd_eval(e)
      [] command = "if" -> cmd_if(e)
      [] command = "while" -> cmd_while(e)
      [] command = "exit" -> cmd_exit(e)
      [] command = "get" -> cmd_get(e)
      [] command = "set" -> cmd_set(e)
      [] command = "del" -> cmd_del(e)
      [] command = "insert" -> cmd_insert(e)
      [] command = "range" -> cmd_range(e)
      [] command = "map" -> cmd_map(e)
      [] command = "pop" -> cmd_pop(e)
      [] command = "var" -> cmd_var(e)
      [] command = "copy" -> cmd_copy(e)
      [] command = "swap" -> cmd_swap(e)
      [] command = "free" -> cmd_free(e)
      [] command = "thread" -> cmd_thread(e)
      [] command = "cast" -> cmd_cast(e)
      [] command = "sort" -> cmd_sort(e)
      [] command = "split" -> cmd_split(e)
      [] command = "join" -> cmd_join(e)
      [] command = "index" -> cmd_index(e)
      [] command = "reduce" -> cmd_reduce(e)
      [] command = "instance" -> cmd_instance(e)
      [] command = "and" -> cmd_and(e)
      [] command = "or" -> cmd_or(e)
      [] command = "not" -> cmd_not(e)
      [] command = "method" -> cmd_method(e)
      [] command = "append" -> cmd_append(e)
      [] command = "modify" -> cmd_modify(e)
      [] command = "print" -> cmd_print(e)
      [] command = "filter" -> cmd_filter(e)
      [] OTHER -> cmd_other(e, command)

(***************************************************************************)
(* Executor::evaluate_program: the classification of a token.              *)
(***************************************************************************)
\* str::replace(from, ""): every occurrence is removed, left to right
RECURSIVE Remove(_, _)
Remove(s, from) ==
    IF Len(s) = 0 THEN ""
    ELSE IF StartsWith(s, from) THEN Remove(SubSeq(s, Len(from) + 1, Len(s)), from)
    ELSE Head(s) \o Remove(Tail(s), from)

\* the cascade with the lookup in memory tried before the literals
classify_variable_first(token, mem) ==
    IF token \in DOMAIN mem THEN "variable"
    ELSE IF ParseOk(token) THEN "number"
    ELSE IF token = "true" \/ token = "false" THEN "bool"
    ELSE IF Len(token) = 0 THEN "panic"
    ELSE IF Char(token, 1) = "(" /\ Char(token, Len(token)) = ")" THEN "string"
    ELSE IF Char(token, 1) = "[" /\ Char(token, Len(token)) = "]" THEN "list"
    ELSE IF StartsWith(token, "error:") THEN "error"
    ELSE IF Char(token, 1) = "#" /\ Char(token, Len(token)) = "#" THEN "comment"
    ELSE "command"

\* the if / else-if cascade of evaluate_program, in source order
classify(token, mem) ==
    IF ParseOk(token) THEN "number"
    ELSE IF token = "true" \/ token = "false" THEN "bool"
    ELSE IF Len(token) = 0 THEN "panic"
    ELSE IF Char(token, 1) = "(" /\ Char(token, Len(token)) = ")" THEN "string"
    ELSE IF Char(token, 1) = "[" /\ Char(token, Len(token)) = "]" THEN "list"
    ELSE IF StartsWith(token, "error:") THEN "error"
    ELSE IF token \in DOMAIN mem THEN "variable"
    ELSE IF Char(token, 1) = "#" /\ Char(token, Len(token)) = "#" THEN "comment"
    ELSE "command"

\* the body of `for token in syntax`, for one token; e is the executor with
\* the token already taken from the innermost program frame
evaluate_token(e, token) ==
    LET class == classify(token, e.memory)
    IN  CASE class = "number" -> {Push(e, 0, Number(ParseVal(token)))}
          [] class = "bool" -> {Push(e, 0, Bool(token = "true"))}
          [] class = "panic" -> {Panic(e)}
          [] class = "string" ->
                {Push(e, 0, String(SubSeq(token, 2, Len(token) - 1)))}
          [] class = "list" ->
                LET frame == [kind |-> "list", old_len |-> Len(e.stack)]
                    slice == SubSeq(token, 2, Len(token) - 1)
                IN  {evaluate_program([e EXCEPT !.frames = Append(@, frame)], slice)}
          [] class = "error" -> {Push(e, 0, Error(Remove(token, "error:")))}
          [] class = "variable" -> {Push(e, 0, e.memory[token])}
          [] class = "comment" -> {e}
          [] class = "command" -> execute_command(e, token)

\* the list literal without `list.reverse()`
collect_list_unreversed(e, old_len) ==
    LET n == Max(0, Len(e.stack) - old_len)
        list == [i \in 1..n |-> Arg(e.stack, i)]
    IN  Push(e, n, List(list))

\* after the inner program of a list literal returned:
\* `for _ in old_len..self.stack.len() { list.push(self.pop_stack()) }; list.reverse()`
collect_list(e, old_len) ==
    LET n == Max(0, Len(e.stack) - old_len)
        list == [i \in 1..n |-> Arg(e.stack, i)]
    IN  Push(e, n, List(Reverse(list)))

(***************************************************************************)
(* The state machine.                                                      *)
(***************************************************************************)
\* the programs handed to evaluate_program: script texts and REPL inputs
Programs ==
    {"5", "8 3", "(x)", "true", "[1 2]", "error:e",
     "5 8 add", "8 3 sub", "5 8 mul", "10 5 div", "3 2 pow", "7 3 mod",
     "5987 (x) var x", "5987 (x) var x 1 add (x) var x",
     "(true) (false) 10 2 div 5 equal if", "(true) (false) 10 2 div 4 equal if",
     "5 (i) var (i 1 add (i) var) (i 10 less) while i",
     "[1 2 3] (x) (x x mul) map", "[1 2 add]",
     "add", "sub", "mul", "div", "mod", "pow", "equal", "less", "write-file",
     "eval", "if", "while", "exit", "get", "set", "del", "insert", "range",
     "map", "pop", "var", "copy", "swap", "#c#",
     "[1 2 3]", "5 [pop pop]", "[1 2] 5 9 insert", "0 5 2 range",
     "(text) (path) write-file", "[1 2 3] 1 get", "[1 2 3] 9 get",
     "5 (add) var add", "7 (5) var 5", "7 (true) var true", "1 (#c#) var #c#"}

Init ==
    /\ stack = <<>>
    /\ memory = <<>>
    /\ mode \in {"Script", "Debug"}
    /\ frames = <<>>
    /\ status = "running"
    /\ runs = 0
    /\ program = ""
    /\ threads = <<>>
    /\ stdout = <<>>

Become(e) ==
    /\ stack' = e.stack
    /\ memory' = e.memory
    /\ frames' = e.frames
    /\ status' = e.status
    /\ threads' = threads \o e.spawned
    /\ stdout' = e.stdout
    /\ UNCHANGED <<mode, runs, program>>

Top == frames[Len(frames)]

Caller(e) == [e EXCEPT !.frames = SubSeq(@, 1, Len(@) - 1)]

\* the evaluator is about to process the next token of the innermost program
AtToken ==
    /\ status = "running"
    /\ frames # <<>>
    /\ Top.kind = "program"
    /\ Top.syntax # <<>>

Token == Head(Top.syntax)

Consumed(e) == [e EXCEPT !.frames[Len(e.frames)].syntax = Tail(@)]

AtFrame(kind) ==
    /\ status = "running"
    /\ frames # <<>>
    /\ Top.kind = kind

\* main: a script file is evaluated once in the mode the command line chose;
\* without a file the REPL (mode Debug) evaluates one input after the other
Submit(text) ==
    /\ status = "running"
    /\ frames = <<>>
    /\ runs < MaxRuns
    /\ mode = "Script" => runs = 0
    /\ frames' = <<ProgramFrame(text)>>
    /\ runs' = runs + 1
    /\ program' = text
    /\ UNCHANGED <<stack, memory, mode, status, threads, stdout>>

\* the body of `for token in syntax` for the next token
Evaluate == \E e \in evaluate_token(Consumed(Self), Token) : Become(e)

AtClass(class) == AtToken /\ classify(Token, memory) = class

AtCommand(command) == AtClass("command") /\ Token = command

PushNumber == AtClass("number") /\ Evaluate

PushBool == AtClass("bool") /\ Evaluate

PushString == AtClass("string") /\ Evaluate

BeginList == AtClass("list") /\ Evaluate

PushError == AtClass("error") /\ Evaluate

PushVariable == AtClass("variable") /\ Evaluate

Comment == AtClass("comment") /\ Evaluate

\* a token that is no known command: pushed as a String
Word == AtClass("command") /\ Token \notin Commands /\ Evaluate

\* the end of `for token in syntax`: evaluate_program returns to its caller
ProgramEnd ==
    /\ AtFrame("program")
    /\ Top.syntax = <<>>
    /\ Become(Caller(Self))

\* the rest of the list-literal branch, after the inner program returned
EndList ==
    /\ AtFrame("list")
    /\ Become(collect_list(Caller(Self), Top.old_len))

\* the condition of `while`: pop_stack().get_bool()
WhileTest ==
    /\ AtFrame("while")
    /\ Top.phase = "cond"
    /\ LET popped == [Self EXCEPT !.stack = Drop(@, 1)]
       IN  IF get_bool(Arg(stack, 1))
           THEN /\ Len(popped.stack) <= MaxStack
                /\ Become(evaluate_program(
                       [popped EXCEPT !.frames[Len(frames)].phase = "body"], Top.code))
           ELSE Become(Caller(popped))

\* the body of `while` returned: evaluate the condition text again
WhileAgain ==
    /\ AtFrame("while")
    /\ Top.phase = "body"
    /\ Become(evaluate_program(
           [Self EXCEPT !.frames[Len(frames)].phase = "cond"], Top.cond))

\* `for x in list.iter()` of map: bind the variable and evaluate the body
MapNext ==
    /\ AtFrame("map")
    /\ Top.phase = "next"
    /\ Top.index < Len(Top.list)
    /\ Become(evaluate_program(
           [Self EXCEPT !.memory = Upsert(@, Top.name, Top.list[Top.index + 1]),
                        !.frames[Len(frames)].phase = "collect"], Top.code))

\* `result_list.push(self.pop_stack())`
MapCollect ==
    /\ AtFrame("map")
    /\ Top.phase = "collect"
    /\ Become([Self EXCEPT !.stack = Drop(@, 1),
                           !.frames[Len(frames)].phase = "next",
                           !.frames[Len(frames)].index = @ + 1,
                           !.frames[Len(frames)].result_list = Append(@, Arg(stack, 1))])

\* `self.stack.push(Type::List(result_list))`
MapEnd ==
    /\ AtFrame("map")
    /\ Top.phase = "next"
    /\ Top.index = Len(Top.list)
    /\ Become(Push(Caller(Self), 0, List(Top.result_list)))

\* `for x in list.iter()` of filter: bind x, evaluate the code
FilterNext ==
    /\ AtFrame("filter")
    /\ Top.phase = "next"
    /\ Top.index < Len(Top.list)
    /\ Become(evaluate_program(
           [Self EXCEPT !.memory = Upsert(@, Top.name, Top.list[Top.index + 1]),
                        !.frames[Len(frames)].phase = "collect"], Top.code))

\* `if self.pop_stack().get_bool() { result_list.push(x.clone()) }`
FilterCollect ==
    /\ AtFrame("filter")
    /\ Top.phase = "collect"
    /\ Become([Self EXCEPT !.stack = Drop(@, 1),
                           !.frames[Len(frames)].phase = "next",
                           !.frames[Len(frames)].index = @ + 1,
                           !.frames[Len(frames)].result_list =
                               IF get_bool(Arg(stack, 1))
                               THEN Append(@, Top.list[Top.index + 1]) ELSE @])

\* `self.stack.push(Type::List(result_list))`
FilterEnd ==
    /\ AtFrame("filter")
    /\ Top.phase = "next"
    /\ Top.index = Len(Top.list)
    /\ Become(Push(Caller(Self), 0, List(Top.result_list)))

Add == AtCommand("add") /\ Evaluate

Sub == AtCommand("sub") /\ Evaluate

Mul == AtCommand("mul") /\ Evaluate

Div == AtCommand("div") /\ Evaluate

Mod == AtCommand("mod") /\ Evaluate

Pow == AtCommand("pow") /\ Evaluate

Equal == AtCommand("equal") /\ Evaluate

Less == AtCommand("less") /\ Evaluate

WriteFile == AtCommand("write-file") /\ Evaluate

Eval == AtCommand("eval") /\ Evaluate

If == AtCommand("if") /\ Evaluate

While == AtCommand("while") /\ Evaluate

Exit == AtCommand("exit") /\ Evaluate

Get == AtCommand("get") /\ Evaluate

Set == AtCommand("set") /\ Evaluate

Del == AtCommand("del") /\ Evaluate

Insert == AtCommand("insert") /\ Evaluate

Range == AtCommand("range") /\ Evaluate

Map == AtCommand("map") /\ Evaluate

Pop == AtCommand("pop") /\ Evaluate

Var == AtCommand("var") /\ Evaluate

Copy == AtCommand("copy") /\ Evaluate

Swap == AtCommand("swap") /\ Evaluate

Free == AtCommand("free") /\ Evaluate

Thread == AtCommand("thread") /\ Evaluate

Cast == AtCommand("cast") /\ Evaluate

Sort == AtCommand("sort") /\ Evaluate

Split == AtCommand("split") /\ Evaluate

Join == AtCommand("join") /\ Evaluate

Index == AtCommand("index") /\ Evaluate

Reduce == AtCommand("reduce") /\ Evaluate

Instance == AtCommand("instance") /\ Evaluate

And == AtCommand("and") /\ Evaluate

Or == AtCommand("or") /\ Evaluate

Not == AtCommand("not") /\ Evaluate

Method == AtCommand("method") /\ Evaluate

AppendValue == AtCommand("append") /\ Evaluate

Modify == AtCommand("modify") /\ Evaluate

StandardOutput == AtCommand("print") /\ Evaluate

Filter == AtCommand("filter") /\ Evaluate

\* `for x in list.iter()` of reduce: bind now and evaluate the body
ReduceNext ==
    /\ AtFrame("reduce")
    /\ Top.phase = "next"
    /\ Top.index < Len(Top.list)
    /\ Become(evaluate_program(
           [Self EXCEPT !.memory = Upsert(@, Top.now, Top.list[Top.index + 1]),
                        !.frames[Len(frames)].phase = "collect"], Top.code))

\* `let result = self.pop_stack()`, then acc is bound to result
ReduceCollect ==
    /\ AtFrame("reduce")
    /\ Top.phase = "collect"
    /\ Become([Self EXCEPT !.stack = Drop(@, 1),
                           !.memory = Upsert(@, Top.acc, Arg(stack, 1)),
                           !.frames[Len(frames)].phase = "next",
                           !.frames[Len(frames)].index = @ + 1])

\* the value of acc is pushed and acc is bound to ""
ReduceEnd ==
    /\ AtFrame("reduce")
    /\ Top.phase = "next"
    /\ Top.index = Len(Top.list)
    /\ LET result == IF Top.acc \in DOMAIN memory THEN memory[Top.acc] ELSE String("")
       IN  Become([Push(Caller(Self), 0, result) EXCEPT
                      !.memory = Upsert(@, Top.acc, String(""))])

Step ==
    \/ PushNumber \/ PushBool \/ PushString \/ BeginList \/ PushError
    \/ PushVariable \/ Comment \/ Word \/ ProgramEnd \/ EndList
    \/ WhileTest \/ WhileAgain \/ MapNext \/ MapCollect \/ MapEnd
    \/ Add \/ Sub \/ Mul \/ Div \/ Mod \/ Pow \/ Equal \/ Less \/ WriteFile
    \/ Eval \/ If \/ While \/ Exit \/ Get \/ Set \/ Del \/ Insert \/ Range
    \/ Map \/ Pop \/ Var \/ Copy \/ Swap

Next ==
    \/ \E text \in Programs : Submit(text)
    \/ Step

Spec == Init /\ [][Next]_vars

(***************************************************************************)
(* Counting loops: one script that binds i to an integer and runs          *)
(* `(i 1 add (i) var) (i N less) while`.  The evaluator is sequential code *)
(* that goes on with its next step as long as it has one: weak fairness of *)
(* its steps.                                                              *)
(***************************************************************************)
CountingLoop(start, n) ==
    NumberToString(start) \o " (i) var (i 1 add (i) var) (i "
        \o NumberToString(n) \o " less) while i"

LoopBounds ==
    {b \in ((0 - MaxStart)..MaxStart) \X ((0 - MaxStart)..(MaxStart + MaxIterations)) :
        b[1] <= b[2] /\ b[2] <= b[1] + MaxIterations}

LoopPrograms == {CountingLoop(b[1], b[2]) : b \in LoopBounds}

LoopSubmit(text) == runs = 0 /\ Submit(text)

LoopStep ==
    \/ PushNumber \/ PushString \/ PushVariable \/ ProgramEnd
    \/ Add \/ Less \/ Var \/ While \/ WhileTest \/ WhileAgain

LoopNext ==
    \/ \E text \in LoopPrograms : LoopSubmit(text)
    \/ LoopStep

LoopSpec == Init /\ [][LoopNext]_vars /\ WF_vars(LoopStep)

(***************************************************************************)
(* List and text commands: one script that first leaves some values on the *)
(* stack and then runs a command on literal arguments.                     *)
(***************************************************************************)
MaxItems == 3

\* two Numbers of which one is a prefix of the other, a Number that is
\* smaller as a number and larger as a text, and a String
Items == {"1", "10", "9", "(a)"}

\* the texts of at most n items, separated by one space
RECURSIVE ItemTexts(_)
ItemTexts(n) ==
    IF n = 0 THEN {""}
    ELSE {""} \cup {item \o (IF rest = "" THEN "" ELSE " " \o rest) :
                      item \in Items, rest \in ItemTexts(n - 1)}

ListLiterals == {"[" \o text \o "]" : text \in ItemTexts(MaxItems)}

\* what the script leaves on the stack before the command's arguments
Preludes == {"", "7 (s) "}

IndexPrograms ==
    {prelude \o list \o " " \o target \o " index" :
        prelude \in Preludes, list \in ListLiterals,
        target \in Items \cup {"(9)", "(date)"}}
    \cup {"[(apple) (banana) (cherry)] (banana) index",
          "[(apple) (banana) (cherry)] (date) index"}

\* reduce with the four arguments the code pops and with the five arguments
\* of the documentation
ReducePrograms ==
    {"[1 2 3] (a) (x) (a x add) reduce", "[] (a) (x) (a x add) reduce",
     "7 [1 2 3] (a) (x) (a x add) reduce a",
     "[1 2 3] (a) 0 (x) (a x add) reduce", "[] (a) 5 (x) (a x add) reduce"}

\* texts that push one value of each kind
Values ==
    {"5", "-3", "(s)", "()", "true", "false", "[1 (a)]", "[]", "error:e",
     "[(point) [(x)] [(y) 2]] [1] instance"}

CopyPrograms ==
    {prelude \o value \o " copy equal" : prelude \in Preludes, value \in Values}
    \cup {"copy equal"}

SwapPrograms ==
    {prelude \o a \o " " \o b \o " swap swap" :
        prelude \in Preludes, a \in Values, b \in Values}
    \cup {"swap swap", "5 swap swap", "5 true swap swap", "7 (s) 5 [1 (a)] swap swap"}

\* Number literals, some of them not in the form Display prints
NumberLiterals == {"0", "7", "-3", "10", "-10", "105", "9999", "+5", "007", "-0"}

CastPrograms ==
    {prelude \o number \o " (string) cast (number) cast" :
        prelude \in Preludes, number \in NumberLiterals}
    \cup {prelude \o bool \o " (string) cast (bool) cast" :
        prelude \in Preludes, bool \in {"true", "false"}}

SortPrograms ==
    {prelude \o list \o " sort" : prelude \in Preludes, list \in ListLiterals}
    \cup {"[(a) 9 10 1] sort", "[true [2 1] error:e (b) 10 9 (b)] sort"}

\* texts with the key at the start, at the end, twice in a row and
\* overlapping itself, and keys that are empty, longer than the text or absent
SplitTexts == {"", "a", "ab", "a,b", "a,,b", ",a,", "aaa", "abab", "a b"}

SplitKeys == {"", ",", "a", "aa", "ab", "b,", " ", "abab"}

SplitJoin(text, key) == "(" \o text \o ") (" \o key \o ") split (" \o key \o ") join"

SplitPrograms ==
    {prelude \o SplitJoin(text, key) :
        prelude \in Preludes, text \in SplitTexts, key \in SplitKeys}
    \cup {"105 0 split 0 join"}

MaxRange == 2

\* range on integers of either sign, with steps of either sign and 0
RangePrograms ==
    {prelude \o NumberToString(min) \o " " \o NumberToString(max) \o " "
            \o NumberToString(step) \o " range" :
        prelude \in Preludes, min \in (0 - MaxRange)..MaxRange,
        max \in (0 - MaxRange)..(MaxRange + 1), step \in (0 - 1)..MaxRange}

LawPrograms ==
    IndexPrograms \cup ReducePrograms \cup CopyPrograms \cup SwapPrograms
        \cup CastPrograms \cup SortPrograms \cup SplitPrograms \cup RangePrograms

LawSubmit(text) == runs = 0 /\ Submit(text)

LawStep ==
    \/ PushNumber \/ PushString \/ BeginList \/ EndList \/ ProgramEnd
    \/ Index
    \/ PushVariable \/ Word \/ Add \/ Reduce \/ ReduceNext \/ ReduceCollect \/ ReduceEnd
    \/ PushBool \/ PushError \/ Instance \/ Copy \/ Equal \/ Swap \/ Cast
    \/ Sort \/ Split \/ Join \/ Range

LawNext ==
    \/ \E text \in LawPrograms : LawSubmit(text)
    \/ LawStep

LawSpec == Init /\ [][LawNext]_vars

(***************************************************************************)
(* Threads.  Each spawned thread owns an executor and runs evaluate_program *)
(* on it; the scheduler interleaves the steps of all executors.            *)
(* std::process::exit in any thread ends the process, and so does the      *)
(* return of main after a script.  The texts given to thread here hold no  *)
(* while, map or reduce.                                                   *)
(***************************************************************************)
Exited == status = "exited" \/ \E i \in 1..Len(threads) : threads[i].status = "exited"

ProcessAlive ==
    /\ status = "running"
    /\ ~Exited
    /\ ~(mode = "Script" /\ runs > 0 /\ frames = <<>>)

\* one step of evaluate_program on the executor e of a thread
thread_step(e) ==
    IF e.status # "running" \/ e.frames = <<>> THEN {}
    ELSE LET frame == e.frames[Len(e.frames)]
         IN  CASE frame.kind = "program" ->
                    IF frame.syntax = <<>> THEN {Caller(e)}
                    ELSE evaluate_token(Consumed(e), Head(frame.syntax))
               [] frame.kind = "list" -> {collect_list(Caller(e), frame.old_len)}
               [] OTHER -> {}

\* the thread i takes a step; the threads it starts join the others
ChildStep(i) ==
    /\ ProcessAlive
    /\ \E e \in thread_step([threads[i] EXCEPT !.stdout = stdout]) :
          /\ threads' = [threads EXCEPT ![i] = [e EXCEPT !.spawned = <<>>]] \o e.spawned
          /\ stdout' = e.stdout
    /\ UNCHANGED <<stack, memory, mode, frames, status, runs, program>>

ThreadPrograms ==
    {"1 (a) var (2 (a) var a (a) free) thread 4 (b) var a (a) free",
     "7 (8 (9) thread pop) thread pop 6",
     "(1 exit 2) thread 3 4 5",
     "(1 2 3) thread 0 exit 9"}

ThreadSubmit(text) == runs = 0 /\ Submit(text)

\* a step of the main thread
ParentStep ==
    \/ ProcessAlive /\ PushNumber
    \/ ProcessAlive /\ PushString
    \/ ProcessAlive /\ PushVariable
    \/ ProcessAlive /\ ProgramEnd
    \/ ProcessAlive /\ Thread
    \/ ProcessAlive /\ Exit
    \/ ProcessAlive /\ Pop
    \/ ProcessAlive /\ Var
    \/ ProcessAlive /\ Free

ThreadNext ==
    \/ \E text \in ThreadPrograms : ThreadSubmit(text)
    \/ ParentStep
    \/ \E i \in 1..Len(threads) : ChildStep(i)

ThreadSpec == Init /\ [][ThreadNext]_vars

(***************************************************************************)
(* The lexer: scripts of literals, comments and words.                     *)
(***************************************************************************)
\* string literals that hold a backslash
EscapeTexts == {"a\\)b", "a\\(b", "a\\qb", "a\\nb", "\\t", "a\\\\b"}

EscapePrograms == {"(" \o text \o ") 5" : text \in EscapeTexts}

\* comments that hold a bracket, followed by two tokens
CommentBrackets == {"(", ")", "[", "]", "()", "[]", "x"}

CommentPrograms == {"#a" \o inner \o "b# 5 (x)" : inner \in CommentBrackets}

\* string literals without a backslash that hold white space
WhitespaceTexts ==
    {"a b", "a\tb", "a\nb", "a\rb", "a" \o IdeographicSpace \o "b", "(\t)", "a  b"}

WhitespacePrograms == {"(" \o text \o ")" : text \in WhitespaceTexts}

\* programs given by their tokens, and the white space put between the
\* tokens, before the first and after the last
TokenLists == {<<"5", "(a b)", "#c d#">>, <<"[1 2]", "x", "error:e">>}

Separators == {" ", "  ", "\t", "\r\n", IdeographicSpace \o " "}

Margins == {"", " ", "\n\t"}

Spaced(tokens, lead, first, second, trail) ==
    lead \o tokens[1] \o first \o tokens[2] \o second \o tokens[3] \o trail

SpacedPrograms ==
    {Spaced(tokens, lead, first, second, trail) :
        tokens \in TokenLists, lead \in Margins, first \in Separators,
        second \in Separators, trail \in Margins}

\* Error literals whose code holds the prefix again
ErrorCodes == {"e", "aerror:b", "error:", "", "error"}

ErrorPrograms == {"error:" \o suffix : suffix \in ErrorCodes}

\* the empty text, texts of white space only, and texts whose brackets
\* or comment marks are not balanced
EdgePrograms ==
    {"", " ", "   ", "\t\n", " \r" \o IdeographicSpace,
     "(", ")", "(a", "a)", "[", "]", "[1", "1]", "#", "#a", "a#",
     ") (  [1", "( ) )  x", "] [ 5", "[(] 5", "()) 5", "[ ] ] 5  ", "# # #",
     "[] () 5", "[ ( ] 5 ) 6"}

LexPrograms ==
    EscapePrograms \cup CommentPrograms \cup WhitespacePrograms
        \cup SpacedPrograms \cup ErrorPrograms \cup EdgePrograms

LexStep ==
    \/ PushNumber \/ PushString \/ PushError \/ Comment \/ Word
    \/ BeginList \/ EndList \/ ProgramEnd

LexNext ==
    \/ \E text \in LexPrograms : LawSubmit(text)
    \/ LexStep

LexSpec == Init /\ [][LexNext]_vars

(***************************************************************************)
(* Lists, objects and the environment: one script per run.                 *)
(***************************************************************************)
MaxIndex == 4

\* get, set and del on the empty list and on a list of three elements, with
\* indexes below 0, inside the list and beyond its end
AccessPrograms ==
    {prelude \o list \o " " \o NumberToString(index) \o command :
        prelude \in Preludes, list \in {"[]", "[4 5 6]"},
        index \in (0 - 2)..MaxIndex, command \in {" get", " (v) set", " del"}}

\* the object a has the method m, whose text calls the method n of the
\* object bound to b; n pushes self
NestedMethods ==
    "[(b) [(n) (self)]] [] instance (b) var "
        \o "[(a) [(m) (b (n) method)]] [] instance (m) method"

MethodPrograms ==
    {NestedMethods,
     "[(a) [(m) (1 2)]] [] instance (m) method self",
     "[(a)] [] instance (zz) method",
     "5 (m) method",
     "[(a) [(m) ()]] [] instance (m) method [(c) [(m) ()]] [] instance (m) method"}

\* texts that push a value of each kind, true and false ones
TruthTexts ==
    {"()", "(s)", "(false)", "0", "7", "-3", "true", "false", "[]", "[0]",
     "error:true", "error:false", "error:x", "[(p)] [] instance",
     "[(p) [(x) 1]] [] instance"}

\* each command that takes a condition, run on each of the values; the loop
\* binds c to the value and its body binds c to 0
TruthPrograms ==
    {text \o use : text \in TruthTexts,
                   use \in {" not", " (bool) cast", " true and", " false or",
                            " (c) var (0 (c) var) (c) while"}}
    \cup {"(1) (2) " \o text \o " if" : text \in TruthTexts}

\* class lists with no, one, two and three members, members with a default
\* value, a member without an element and a name given twice, and the empty
\* class list; data lists of up to three values
ClassLists ==
    {"[]", "[(p)]", "[(p) [(x)]]", "[(p) [(x)] [(y)]]", "[(p) [(x)] [(d) 7] [(y)]]",
     "[(p) [(d) 7] [(x)]]", "[(p) (x) 5]", "[(p) [] [(x)]]", "[(p) [(x)] [(x)]]",
     "[(p) [(x)] [(x) 7]]", "[(p) [(x)] ()]"}

DataLists == {"[]", "[1]", "[1 2]", "[1 2 3]"}

InstancePrograms ==
    {prelude \o class \o " " \o data \o " instance" :
        prelude \in Preludes, class \in ClassLists, data \in DataLists}

\* two or three bindings, one of them written twice, then free of a bound
\* name, of a name never bound, or of a number, then a read of every name
FreedNames == {"(a)", "(b)", "(zz)", "1"}

FreePrograms ==
    {prelude \o "1 (a) var 2 (b) var 3 (a) var " \o name \o " free a b" :
        prelude \in Preludes, name \in FreedNames}
    \cup {"1 (a) var (a) free (a) free a", "[4] (c) var 1 (a) var (a) free c a"}

DataPrograms ==
    AccessPrograms \cup MethodPrograms \cup TruthPrograms \cup InstancePrograms
        \cup FreePrograms

DataStep ==
    \/ PushNumber \/ PushString \/ BeginList \/ EndList \/ ProgramEnd
    \/ Get \/ Set \/ Del
    \/ PushVariable \/ Var \/ Instance \/ Method
    \/ PushBool \/ PushError \/ Not \/ And \/ Or \/ Cast \/ If
    \/ While \/ WhileTest \/ WhileAgain
    \/ Free \/ Word

DataNext ==
    \/ \E text \in DataPrograms : LawSubmit(text)
    \/ DataStep

DataSpec == Init /\ [][DataNext]_vars

(***************************************************************************)
(* The frame specification: commands run above values that must stay.      *)
(***************************************************************************)
\* get-stack on the empty stack, on numbers, and on a string and a list
StackPrograms ==
    {"get-stack", "1 2 get-stack", "7 (s) [1 2] get-stack",
     "1 get-stack get-stack"}

\* a list and an Object are bound, read back and changed on the stack,
\* then read again
ListMutations ==
    {"0 9 set", "9 9 set", "9 append", "0 del", "5 del", "0 9 insert", "2 9 insert"}

ObjectMutations == {"(x) 9 modify", "(y) 9 modify", "(x) [4] modify"}

CopyOnReadPrograms ==
    {"[1 2] (v) var 3 (w) var v " \o mutation \o " v" : mutation \in ListMutations}
    \cup {"[(p) [(x) 1]] [] instance (v) var 3 (w) var v " \o mutation \o " v" :
             mutation \in ObjectMutations}
    \cup {"[(p) [(x) 1]] [] instance (y) 2 modify", "5 (x) 2 modify",
          "7 [(p) [(x) 1] [(z) 3]] [] instance (x) [4] modify"}

\* list literals above two values: the inner program pushes, pops what it
\* pushed, pops one value more, or pops more than the stack holds
ListFramePrograms ==
    {"7 (s) [1 2]", "7 (s) [1 pop]", "7 (s) [1 pop pop]", "7 (s) [pop 3]",
     "7 (s) [pop pop pop]", "5 [pop pop]", "7 (s) [[pop] 1]"}

\* bodies of map and filter that push one value, two values, nothing, or
\* pop a value more
Bodies == {"x", "true", "false", "x 1", "", "pop"}

Traversals == {"map", "filter"}

Traverse(body, command) == "7 (s) [1 0] (x) (" \o body \o ") " \o command

TraversalPrograms ==
    {Traverse(body, command) : body \in Bodies, command \in Traversals}

\* write-file with its two arguments, alone and above another value
WritePrograms == {"(text) (path) write-file", "7 (text) (path) write-file 9"}

\* values of every kind a literal can have, each with the name of its kind
KindValues ==
    {<<"5", "number">>, <<"-3", "number">>, <<"0", "number">>,
     <<"(s)", "string">>, <<"()", "string">>, <<"(12)", "string">>,
     <<"true", "bool">>, <<"false", "bool">>,
     <<"[1 (a)]", "list">>, <<"[]", "list">>, <<"[[2] true error:e]", "list">>,
     <<"error:e", "error">>, <<"error:", "error">>, <<"error:true", "error">>}

OwnKindPrograms ==
    {prelude \o v[1] \o " (" \o v[2] \o ") cast" :
        prelude \in Preludes, v \in KindValues}

FramePrograms ==
    StackPrograms \cup CopyOnReadPrograms \cup ListFramePrograms
        \cup TraversalPrograms \cup WritePrograms \cup OwnKindPrograms

FrameStep ==
    \/ PushNumber \/ PushString \/ BeginList \/ EndList \/ ProgramEnd
    \/ Word
    \/ PushVariable \/ Var \/ Instance \/ Modify \/ Set \/ AppendValue \/ Del \/ Insert
    \/ Pop \/ PushBool \/ WriteFile \/ PushError \/ Cast
    \/ Map \/ MapNext \/ MapCollect \/ MapEnd
    \/ Filter \/ FilterNext \/ FilterCollect \/ FilterEnd

FrameNext ==
    \/ \E text \in FramePrograms : LawSubmit(text)
    \/ FrameStep

FrameSpec == Init /\ [][FrameNext]_vars

(***************************************************************************)
(* The mode specification: scripts that write to the standard output, run  *)
(* with and without the debug flag.                                        *)
(***************************************************************************)
\* texts that print
PrintingTexts == {"(a) print", "5 print", "print", "[1 (b)] print", "error:e print",
                  "true print", "3 4 add print"}

\* a printing text alone, between values, run by eval, chosen by if, kept
\* in a variable, and inside a list literal
ModePrograms ==
    PrintingTexts
    \cup {"7 (s) " \o text \o " 9" : text \in PrintingTexts}
    \cup {"(1 print 2 print) eval 3 print",
          "(1 print) (2 print) true if", "(1 print) (2 print) 0 if",
          "6 (x) var x print x", "1 [2 print 3] 4 print", "[1 2 3] 0 get print",
          "((5 print) eval 6) eval"}

ModeStep ==
    \/ PushNumber \/ PushString \/ PushBool \/ PushError \/ BeginList \/ EndList
    \/ ProgramEnd \/ PushVariable \/ Var \/ Add \/ Get \/ Eval \/ If
    \/ StandardOutput

ModeNext ==
    \/ \E text \in ModePrograms : LawSubmit(text)
    \/ ModeStep

ModeSpec == Init /\ [][ModeNext]_vars

(***************************************************************************)
(* Properties.                                                             *)
(***************************************************************************)
Height == Len(stack)

\* the values a command found on the stack, top first
Nth(k) == stack[Height + 1 - k]

\* the stack below the k topmost values
Below(k) == SubSeq(stack, 1, Height - k)

\* the documented arity of a command: how many values it pops
Pops(command) ==
    CASE command \in {"add", "sub", "mul", "div", "mod", "pow", "equal", "less"} -> 2
      [] command \in {"write-file", "while", "get", "del", "var", "swap"} -> 2
      [] command \in {"eval", "exit", "pop", "copy"} -> 1
      [] command \in {"if", "set", "insert", "range", "map", "modify", "filter"} -> 3
      [] command \in {"free", "thread", "sort", "not", "print"} -> 1
      [] command \in {"cast", "split", "join", "index", "instance", "and", "or",
                      "method", "append"} -> 2
      [] command = "reduce" -> 5

\* the documented number of values a command itself pushes; what the text run
\* by eval, if, while or map leaves is counted with that text, not here
Pushes(command) ==
    CASE command \in {"add", "sub", "mul", "div", "mod", "pow", "equal", "less"} -> 1
      [] command \in {"get", "set", "del", "insert", "range", "append", "modify"} -> 1
      [] command \in {"write-file", "eval", "if", "while", "exit", "map",
                      "pop", "var", "filter"} -> 0
      [] command = "copy" -> 2
      [] command = "swap" -> 2
      [] command \in {"free", "thread", "method", "print"} -> 0
      [] command \in {"cast", "sort", "split", "join", "index", "reduce",
                      "instance", "and", "or", "not"} -> 1

\* C1: every built-in command is total: dispatching it never aborts
\* (panics) the evaluator, whatever the stack and the environment hold.
C1_NeverAborts == status # "panicked"

\* C2: a command executed on a stack that holds at least as many values as
\* it pops leaves the height at the height before, minus its documented pop
\* count, plus its documented push count; on an error path the one value
\* pushed is the Error (write-file pushes nothing when it succeeds).  A step
\* that aborts is the matter of C1 and is not judged here.
C2_StackHeight ==
    [][\A command \in Commands :
          (AtCommand(command) /\ Height >= Pops(command) /\ status' # "panicked")
          => IF command = "write-file"
             THEN \/ Len(stack') = Height - 2
                  \/ /\ Len(stack') = Height - 2 + 1
                     /\ stack'[Len(stack')].type = "Error"
             ELSE Len(stack') = Height - Pops(command) + Pushes(command)]_vars

\* C3: popping an empty stack yields String("") and leaves the stack empty;
\* a command run with fewer values than it pops takes "" for each missing
\* argument and the evaluation goes on with the next token (exit, which ends
\* the process by design, aside).
C3_MissingArguments ==
    [][/\ (AtCommand("pop") /\ stack = <<>>) => stack' = <<>>
       /\ (AtCommand("copy") /\ stack = <<>>) => stack' = <<String(""), String("")>>
       /\ \A command \in Commands \ {"exit"} :
             (AtCommand(command) /\ Height < Pops(command)) => status' = "running"]_vars

\* a run of one program by a new executor has returned
Finished(text) == program = text /\ frames = <<>> /\ runs = 1 /\ status = "running"

Enclosed(token, open, close) ==
    Len(token) > 0 /\ Char(token, 1) = open /\ Char(token, Len(token)) = close

\* the token has the shape of a number, bool, string, list or error literal
IsLiteral(token) ==
    \/ ParseOk(token)
    \/ token \in {"true", "false"}
    \/ Enclosed(token, "(", ")")
    \/ Enclosed(token, "[", "]")
    \/ StartsWith(token, "error:")

\* the evaluator took the token and did nothing else to its control stack
TokenTaken == frames' = [frames EXCEPT ![Len(frames)].syntax = Tail(@)]

\* C4: a token is classified by the first matching rule of number, bool,
\* string literal, list literal, error literal, bound variable, comment,
\* command.  A literal pushes its own value whatever the environment binds;
\* a bound name that is no literal pushes the bound value and runs nothing,
\* also when it is a command name or has the shape of a comment; an unbound
\* comment changes nothing; an unbound word that is no command is pushed.
C4_Cascade ==
    [][AtToken =>
        LET token == Token
            bound == token \in DOMAIN memory
            comment == Enclosed(token, "#", "#")
        IN  /\ ParseOk(token) =>
                  stack' = Append(stack, Number(ParseVal(token))) /\ TokenTaken
            /\ token \in {"true", "false"} =>
                  stack' = Append(stack, Bool(token = "true")) /\ TokenTaken
            /\ Enclosed(token, "(", ")") =>
                  /\ stack' = Append(stack, String(SubSeq(token, 2, Len(token) - 1)))
                  /\ TokenTaken
            /\ Enclosed(token, "[", "]") =>
                  stack' = stack /\ Len(frames') = Len(frames) + 2
            /\ StartsWith(token, "error:") =>
                  /\ Len(stack') = Height + 1
                  /\ stack'[Len(stack')].type = "Error"
                  /\ TokenTaken
            /\ IsLiteral(token) => memory' = memory /\ status' = "running"
            /\ (~IsLiteral(token) /\ bound) =>
                  /\ stack' = Append(stack, memory[token])
                  /\ memory' = memory
                  /\ status' = "running"
                  /\ TokenTaken
            /\ (~IsLiteral(token) /\ ~bound /\ comment) =>
                  UNCHANGED <<stack, memory, status>> /\ TokenTaken
            /\ (~IsLiteral(token) /\ ~bound /\ ~comment /\ token \notin Commands) =>
                  stack' = Append(stack, String(token)) /\ TokenTaken]_vars

\* `5 (add) var add`: the token add pushed the bound 5; the command add on
\* the empty stack would have pushed 0
C4_Witness ==
    /\ Finished("5 (add) var add")
    /\ stack = <<Number(5)>>
    /\ memory["add"] = Number(5)

\* C5: a list literal pushes one List of exactly the values its inner text
\* left at the indices >= L0 (the height before the literal), bottom to top,
\* in place of those values; [1 2 3] gives the list 1,2,3 and [1 2 add] the
\* one-element list 3.
C5_ListLiteral ==
    [][/\ AtFrame("list") =>
            LET L0 == Top.old_len
            IN  /\ frames' = SubSeq(frames, 1, Len(frames) - 1)
                /\ IF Height >= L0
                   THEN stack' = Append(SubSeq(stack, 1, L0),
                                        List(SubSeq(stack, L0 + 1, Height)))
                   ELSE stack' = Append(stack, List(<<>>))
       /\ Finished("[1 2 3]")' =>
            stack' = <<List(<<Number(1), Number(2), Number(3)>>)>>
       /\ Finished("[1 2 add]")' => stack' = <<List(<<Number(3)>>)>>]_vars

C5_Witness ==
    /\ Finished("[1 2 3]")
    /\ stack = <<List(<<Number(1), Number(2), Number(3)>>)>>

\* a ^ b for b >= 0, by squaring
RECURSIVE Exponent(_, _)
Exponent(a, b) ==
    IF b = 0 THEN 1
    ELSE IF b % 2 = 0 THEN Exponent(a * a, b \div 2)
    ELSE a * Exponent(a, b - 1)

\* r is a op b
Computes(command, a, b, r) ==
    CASE command = "add" -> r = a + b
      [] command = "sub" -> r = a - b
      [] command = "mul" -> r = a * b
      [] command = "div" -> b # 0 /\ r * b = a
      [] command = "pow" -> b >= 0 /\ r = Exponent(a, b)

\* C6: add, sub, mul, div and pow pop the top value as the right operand b
\* and the next one as the left operand a and push exactly one Number,
\* a op b, leaving the rest of the stack as it was; `8 3 sub` gives 5,
\* `10 5 div` gives 2, `3 2 pow` gives 9 (and `5 8 add` 13, `5 8 mul` 40).
C6_Arithmetic ==
    [][/\ \A command \in {"add", "sub", "mul", "div", "pow"} :
             (AtCommand(command) /\ Height >= 2) =>
                 LET b == get_number(Nth(1))
                     a == get_number(Nth(2))
                     r == stack'[Len(stack')]
                 IN  /\ Len(stack') = Height - 1
                     /\ SubSeq(stack', 1, Height - 2) = Below(2)
                     /\ r.type = "Number"
                     /\ Computes(command, a, b, r.val)
                     /\ TokenTaken
                     /\ UNCHANGED <<memory, status>>
       /\ Finished("5 8 add")' => stack' = <<Number(13)>>
       /\ Finished("8 3 sub")' => stack' = <<Number(5)>>
       /\ Finished("5 8 mul")' => stack' = <<Number(40)>>
       /\ Finished("10 5 div")' => stack' = <<Number(2)>>
       /\ Finished("3 2 pow")' => stack' = <<Number(9)>>]_vars

C6_Witness == Finished("8 3 sub") /\ stack = <<Number(5)>>

\* C7, for every name: var pops the name (top), then the value, and upserts
\* the binding; afterwards a token equal to the name pushes the value bound
\* last.  The part that does not hold: every token that is bound in the
\* environment pushes its binding.
C7_AnyBoundToken ==
    [][(AtToken /\ Token \in DOMAIN memory) =>
           stack' = Append(stack, memory[Token])]_vars

\* C7, for names that are no literal: var pops the name (top), then the
\* value, binds the name to the value and leaves every other binding as it
\* is, one binding per name; a token equal to a bound name that is not a
\* number, bool, string, list or error literal pushes the value bound last;
\* `5987 (x) var x 1 add (x) var x` leaves 5988 on top and x bound to 5988.
C7_Var ==
    [][/\ (AtCommand("var") /\ Height >= 2) =>
            LET name == get_string(Nth(1))
                data == Nth(2)
            IN  /\ stack' = Below(2)
                /\ DOMAIN memory' = DOMAIN memory \cup {name}
                /\ memory'[name] = data
                /\ \A x \in DOMAIN memory \ {name} : memory'[x] = memory[x]
                /\ TokenTaken
       /\ (AtToken /\ Token \in DOMAIN memory /\ ~IsLiteral(Token)) =>
            stack' = Append(stack, memory[Token])
       /\ Finished("5987 (x) var x")' =>
            stack' = <<Number(5987)>> /\ memory'["x"] = Number(5987)
       /\ Finished("5987 (x) var x 1 add (x) var x")' =>
            stack' = <<Number(5988)>> /\ memory'["x"] = Number(5988)]_vars

C7_Witness ==
    /\ Finished("5987 (x) var x 1 add (x) var x")
    /\ stack = <<Number(5988)>>
    /\ DOMAIN memory = {"x"}

\* C8: if pops the condition (top), then the else-text, then the then-text,
\* and evaluates exactly one of the two texts as a program: the then-text
\* when the condition coerces to true, the else-text otherwise.
C8_If ==
    [][/\ (AtCommand("if") /\ Height >= 3) =>
            LET condition == get_bool(Nth(1))
                code_else == get_string(Nth(2))
                code_if == get_string(Nth(3))
                chosen == IF condition THEN code_if ELSE code_else
            IN  /\ stack' = Below(3)
                /\ frames' = Append([frames EXCEPT ![Len(frames)].syntax = Tail(@)],
                                    ProgramFrame(chosen))
                /\ UNCHANGED <<memory, status>>
       /\ Finished("(true) (false) 10 2 div 5 equal if")' => stack' = <<Bool(TRUE)>>
       /\ Finished("(true) (false) 10 2 div 4 equal if")' => stack' = <<Bool(FALSE)>>]_vars

C8_Witness ==
    /\ Finished("(true) (false) 10 2 div 4 equal if")
    /\ stack = <<Bool(FALSE)>>

\* the counting loop from start to n has returned and left i = n
LoopResult(start, n) ==
    /\ Finished(CountingLoop(start, n))
    /\ stack = <<Number(n)>>
    /\ memory["i"] = Number(n)

\* C9: while pops condText (top) and bodyText, then evaluates condText and
\* pops its result: on a result that coerces to true it evaluates bodyText
\* once and then condText again, on the first result that coerces to false
\* it finishes.  A counting loop whose body adds 1 to i and whose condition
\* is `i N less`, started with an integer i <= N, terminates with i = N.
C9_While ==
    /\ [][/\ (AtCommand("while") /\ Height >= 2) =>
               /\ stack' = Below(2)
               /\ Len(frames') = Len(frames) + 2
               /\ LET loop == frames'[Len(frames) + 1]
                  IN  /\ loop.kind = "while"
                      /\ loop.cond = get_string(Nth(1))
                      /\ loop.code = get_string(Nth(2))
               /\ frames'[Len(frames')] = ProgramFrame(get_string(Nth(1)))
          /\ (AtFrame("while") /\ Top.phase = "cond") =>
               /\ stack' = Drop(stack, 1)
               /\ IF get_bool(Arg(stack, 1))
                  THEN /\ Len(frames') = Len(frames) + 1
                       /\ frames'[Len(frames')] = ProgramFrame(Top.code)
                       /\ frames'[Len(frames)].cond = Top.cond
                       /\ frames'[Len(frames)].code = Top.code
                       /\ frames'[Len(frames)].phase = "body"
                  ELSE frames' = SubSeq(frames, 1, Len(frames) - 1)
          /\ (AtFrame("while") /\ Top.phase = "body") =>
               /\ stack' = stack
               /\ Len(frames') = Len(frames) + 1
               /\ frames'[Len(frames')] = ProgramFrame(Top.cond)
               /\ frames'[Len(frames)].cond = Top.cond
               /\ frames'[Len(frames)].code = Top.code
               /\ frames'[Len(frames)].phase = "cond"]_vars
    /\ (runs = 1) ~> (\E b \in LoopBounds : LoopResult(b[1], b[2]))

C9_Witness == LoopResult(5, 10)

\* the map loops in progress: their frames on the control stack
MapFrames == {i \in 1..Len(frames) : frames[i].kind = "map"}

\* C10: map pops bodyText (top), varName and the list; for each element in
\* input order it binds varName to the element, evaluates bodyText and takes
\* the value then on top of the stack (what pop_stack returns) as the next
\* element of the result; it pushes one List, as long as the input;
\* `[1 2 3] (x) (x x mul) map` gives the list 1,4,9.
C10_Map ==
    [][/\ (AtCommand("map") /\ Height >= 3) =>
            /\ stack' = Below(3)
            /\ Len(frames') = Len(frames) + 1
            /\ LET loop == frames'[Len(frames')]
               IN  /\ loop.kind = "map"
                   /\ loop.code = get_string(Nth(1))
                   /\ loop.name = get_string(Nth(2))
                   /\ loop.list = get_list(Nth(3))
                   /\ loop.result_list = <<>>
       /\ \A i \in MapFrames : Len(frames[i].result_list) <= Len(frames[i].list)
       /\ (AtFrame("map") /\ Top.phase = "next"
              /\ Len(Top.result_list) < Len(Top.list)) =>
            /\ Top.name \in DOMAIN memory'
            /\ memory'[Top.name] = Top.list[Len(Top.result_list) + 1]
            /\ frames'[Len(frames')] = ProgramFrame(Top.code)
            /\ frames'[Len(frames)].phase = "collect"
            /\ stack' = stack
       /\ (AtFrame("map") /\ Top.phase = "collect") =>
            /\ Len(frames') = Len(frames)
            /\ frames'[Len(frames)].result_list = Append(Top.result_list, Arg(stack, 1))
            /\ frames'[Len(frames)].list = Top.list
            /\ frames'[Len(frames)].phase = "next"
            /\ stack' = Drop(stack, 1)
       /\ (AtFrame("map") /\ Top.phase = "next"
              /\ Len(Top.result_list) = Len(Top.list)) =>
            /\ stack' = Append(stack, List(Top.result_list))
            /\ frames' = SubSeq(frames, 1, Len(frames) - 1)
       /\ Finished("[1 2 3] (x) (x x mul) map")' =>
            stack' = <<List(<<Number(1), Number(4), Number(9)>>)>>]_vars

C10_Witness ==
    /\ Finished("[1 2 3] (x) (x x mul) map")
    /\ stack = <<List(<<Number(1), Number(4), Number(9)>>)>>
    /\ memory["x"] = Number(3)

\* C11: index pops a target and a list and pushes the zero-based position
\* of the first element whose stringified form equals the stringified target;
\* when no element matches it pushes exactly one Error item-not-found and no
\* Number.
C11_Index ==
    [][/\ (AtCommand("index") /\ Height >= 2) =>
            LET target == get_string(Nth(1))
                list == get_list(Nth(2))
                matches == {i \in 1..Len(list) : get_string(list[i]) = target}
            IN  IF matches = {}
                THEN stack' = Append(Below(2), Error("item-not-found"))
                ELSE \E i \in matches :
                        /\ \A j \in 1..(i - 1) : j \notin matches
                        /\ stack' = Append(Below(2), Number(i - 1))
       /\ Finished("[(apple) (banana) (cherry)] (banana) index")'
            => stack' = <<Number(1)>>
       /\ Finished("[(apple) (banana) (cherry)] (date) index")'
            => stack' = <<Error("item-not-found")>>]_vars

\* a list that holds the target twice: the position of the first is pushed
C11_Witness ==
    /\ Finished("7 (s) [9 1 9] 9 index")
    /\ stack = <<Number(7), String("s"), Number(0)>>

\* C12: reduce pops five arguments (list, accName, init, currName,
\* bodyText) and binds accName to init; it pushes the final value of accName,
\* which is init for the empty list, and afterwards accName is bound to "".
C12_Reduce ==
    [][/\ (AtCommand("reduce") /\ Height >= 5) =>
            /\ Len(stack') = Height - 5
            /\ get_string(Nth(4)) \in DOMAIN memory'
            /\ memory'[get_string(Nth(4))] = Nth(3)
       /\ Finished("[1 2 3] (a) 0 (x) (a x add) reduce")' =>
            /\ stack' = <<Number(6)>>
            /\ memory'["a"] = String("")
       /\ Finished("[] (a) 5 (x) (a x add) reduce")' =>
            /\ stack' = <<Number(5)>>
            /\ memory'["a"] = String("")]_vars

\* the thread i is about to evaluate the token
ChildAt(i, token) ==
    /\ threads[i].status = "running"
    /\ threads[i].frames # <<>>
    /\ threads[i].frames[Len(threads[i].frames)].kind = "program"
    /\ threads[i].frames[Len(threads[i].frames)].syntax # <<>>
    /\ Head(threads[i].frames[Len(threads[i].frames)].syntax) = token

\* C13: thread starts a background evaluator whose stack, environment and
\* mode are the parent's at the spawn, after the code text was popped; from
\* then on, in every interleaving, a step of one evaluator changes neither
\* the stack nor the environment of any other.
C13_Thread ==
    [][/\ (AtCommand("thread") /\ frames' # frames) =>
            /\ stack' = Below(1)
            /\ memory' = memory
            /\ Len(threads') = Len(threads) + 1
            /\ threads'[Len(threads')].stack = Below(1)
            /\ threads'[Len(threads')].memory = memory
            /\ threads'[Len(threads')].mode = mode
            /\ threads'[Len(threads')].frames = <<ProgramFrame(get_string(Nth(1)))>>
       /\ \A i \in 1..Len(threads) :
            (ChildAt(i, "thread") /\ threads'[i] # threads[i]) =>
                /\ Len(threads') = Len(threads) + 1
                /\ threads'[Len(threads')].stack = threads'[i].stack
                /\ threads'[Len(threads')].stack
                       = SubSeq(threads[i].stack, 1, Len(threads[i].stack) - 1)
                /\ threads'[Len(threads')].memory = threads[i].memory
       /\ (stack' # stack \/ memory' # memory) =>
            \A i \in 1..Len(threads) : threads'[i] = threads[i]
       /\ \A i \in 1..Len(threads) :
            threads'[i] # threads[i] =>
                /\ stack' = stack /\ memory' = memory
                /\ \A j \in 1..Len(threads) : j # i => threads'[j] = threads[j]]_vars

\* after the spawn the child has bound a to 2 and the parent b to 4, and
\* each has read its own a
C13_Witness ==
    /\ program = "1 (a) var (2 (a) var a (a) free) thread 4 (b) var a (a) free"
    /\ Len(threads) = 1
    /\ threads[1].stack = <<Number(2)>>
    /\ threads[1].memory = Upsert(<<>>, "a", Number(2))
    /\ stack = <<Number(1)>>
    /\ memory = Upsert(Upsert(<<>>, "a", Number(1)), "b", Number(4))

\* C14: exit ends the whole process at once: the evaluator that runs exit
\* is stopped by it, and from then on no token of the same program is
\* evaluated and no thread takes a further step.
C14_Exit ==
    [][/\ ~Exited
       /\ (AtCommand("exit") /\ frames' # frames) => status' = "exited"
       /\ \A i \in 1..Len(threads) :
            (ChildAt(i, "exit") /\ threads'[i] # threads[i]) =>
                threads'[i].status = "exited"]_vars

\* the parent has run exit while its thread had tokens left, and the token
\* after exit is still in its program
C14_Witness ==
    /\ program = "(1 2 3) thread 0 exit 9"
    /\ status = "exited"
    /\ frames[1].syntax = <<"9">>
    /\ Len(threads) = 1
    /\ threads[1].frames # <<>>
    /\ threads[1].frames[1].syntax = <<"2", "3">>

\* C15: on every stack, of any height and the empty one included, and for
\* every kind of top value, copy followed by equal leaves Bool(true) on top.
C15_CopyEqual ==
    /\ \A copied \in cmd_copy(Self) : \A compared \in cmd_equal(copied) :
          Arg(compared.stack, 1) = Bool(TRUE)
    /\ \A text \in CopyPrograms :
          Finished(text) => (Height >= 1 /\ Nth(1) = Bool(TRUE))

\* copy and equal have run on an Object above two other values
C15_Witness ==
    /\ Finished("7 (s) [(point) [(x)] [(y) 2]] [1] instance copy equal")
    /\ stack = <<Number(7), String("s"), Bool(TRUE)>>

\* C16 as stated: on every stack, of any height and the heights 0 and 1
\* included, swap run twice leaves the stack exactly as it was.
C16_SwapTwiceAnyHeight ==
    /\ Finished("swap swap") => stack = <<>>
    /\ Finished("5 swap swap") => stack = <<Number(5)>>
    /\ Height >= 2 =>
          \A once \in cmd_swap(Self) : \A twice \in cmd_swap(once) : twice.stack = stack

\* C16, amended: on every stack that holds at least two values, swap run
\* twice leaves the stack exactly as it was.
C16_SwapTwice ==
    /\ Height >= 2 =>
          \A once \in cmd_swap(Self) : \A twice \in cmd_swap(once) : twice.stack = stack
    /\ Finished("5 true swap swap") => stack = <<Number(5), Bool(TRUE)>>
    /\ Finished("7 (s) 5 [1 (a)] swap swap") =>
          stack = <<Number(7), String("s"), Number(5), List(<<Number(1), String("a")>>)>>

\* both swaps have run on two values of different kinds above two others
C16_Witness ==
    /\ Finished("7 (s) 5 [1 (a)] swap swap")
    /\ stack = <<Number(7), String("s"), Number(5), List(<<Number(1), String("a")>>)>>

\* the value on top after `(kind) cast` has run on the value v
CastTo(v, kind) ==
    {Arg(cast.stack, 1) : cast \in cmd_cast(Push(Push(Self, 0, v), 0, String(kind)))}

\* the values left by `(string) cast (kind) cast` run on the value v
RoundTrip(v, kind) == UNION {CastTo(text, kind) : text \in CastTo(v, "string")}

\* C17 as stated: every Number cast to string and back to number is the
\* same Number, and each of the two Bools cast to string and back to bool
\* is the same Bool.
C17_CastRoundTripBothBools ==
    /\ (Height >= 1 /\ Nth(1).type = "Number") => RoundTrip(Nth(1), "number") = {Nth(1)}
    /\ Finished("true (string) cast (bool) cast") => stack = <<Bool(TRUE)>>
    /\ Finished("false (string) cast (bool) cast") => stack = <<Bool(FALSE)>>

\* C17, amended: every Number cast to string and back to number is the same
\* Number, and Bool(true) cast to string and back to bool is Bool(true);
\* Bool(false) comes back as Bool(true).
C17_CastRoundTrip ==
    /\ (Height >= 1 /\ Nth(1).type = "Number") => RoundTrip(Nth(1), "number") = {Nth(1)}
    /\ RoundTrip(Bool(TRUE), "bool") = {Bool(TRUE)}
    /\ RoundTrip(Bool(FALSE), "bool") = {Bool(TRUE)}
    /\ \A number \in NumberLiterals :
          Finished(number \o " (string) cast (number) cast")
              => stack = <<Number(ParseVal(number))>>
    /\ Finished("true (string) cast (bool) cast") => stack = <<Bool(TRUE)>>
    /\ Finished("false (string) cast (bool) cast") => stack = <<Bool(TRUE)>>

\* a negative Number has gone through both casts above two other values
C17_Witness ==
    /\ Finished("7 (s) -10 (string) cast (number) cast")
    /\ stack = <<Number(7), String("s"), Number(0 - 10)>>

\* a <= b in the lexicographic order of the characters' code points
LexLeq(a, b) ==
    \/ StartsWith(b, a)
    \/ \E k \in 1..Len(a) :
          /\ k <= Len(b)
          /\ SubSeq(a, 1, k - 1) = SubSeq(b, 1, k - 1)
          /\ CharCode(Char(a, k)) < CharCode(Char(b, k))

\* how often the text occurs among the stringified elements of the list
Occurrences(list, text) == Cardinality({i \in 1..Len(list) : get_string(list[i]) = text})

\* C18: the list sort pushes has its elements' stringified forms in
\* lexicographic non-decreasing order, these forms are a permutation of the
\* stringified forms of the input, and sort run on the output yields an
\* equal list.
C18_Sort ==
    /\ (Height >= 1 /\ Nth(1).type = "List") =>
          \A sorted \in cmd_sort(Self) :
             LET input == Nth(1).val
                 output == Arg(sorted.stack, 1)
             IN  /\ sorted.stack = Append(Below(1), output)
                 /\ output.type = "List"
                 /\ Len(output.val) = Len(input)
                 /\ \A i \in 1..(Len(output.val) - 1) :
                       LexLeq(get_string(output.val[i]), get_string(output.val[i + 1]))
                 /\ \A i \in 1..Len(input) :
                       Occurrences(output.val, get_string(input[i]))
                           = Occurrences(input, get_string(input[i]))
                 /\ \A again \in cmd_sort(sorted) : again.stack = sorted.stack
    /\ Finished("[(a) 9 10 1] sort") =>
          stack = <<List(<<String("1"), String("10"), String("9"), String("a")>>)>>

\* sort has run on a list that holds Numbers, a Bool, a List, an Error and
\* the same String twice
C18_Witness ==
    /\ Finished("[true [2 1] error:e (b) 10 9 (b)] sort")
    /\ stack = <<List(<<String("10"), String("9"), String("[2 1]"), String("b"),
                        String("b"), String("error:e"), String("true")>>)>>

\* C19: for every String text and every key, split by the key followed by
\* join with the same key yields the text.
C19_SplitJoin ==
    /\ (Height >= 2 /\ Nth(2).type = "String") =>
          \A parts \in cmd_split(Self) :
             \A joined \in cmd_join(Push(parts, 0, Nth(1))) :
                joined.stack = Append(Below(2), Nth(2))
    /\ \A text \in SplitTexts : \A key \in SplitKeys :
          Finished(SplitJoin(text, key)) => stack = <<String(text)>>

\* a text that holds the key twice in a row has been split into three
\* pieces, the middle one empty, and joined again
C19_Witness ==
    /\ Finished("7 (s) " \o SplitJoin("a,,b", ","))
    /\ stack = <<Number(7), String("s"), String("a,,b")>>
    /\ SplitString("a,,b", ",") = <<"a", "", "b">>
    /\ SplitString("ab", "") = <<"", "a", "b", "">>

\* C20: for integer arguments, range min max step pushes a list that starts
\* at min when min < max, holds only values v with min <= v < max, and whose
\* consecutive elements differ by exactly step; this for negative min or max
\* as well.  A range that aborts the evaluator (step below 1) is the matter
\* of C1 and is not judged here.
C20_Range ==
    [][(/\ AtCommand("range")
        /\ Height >= 3
        /\ \A k \in 1..3 : Nth(k).type = "Number"
        /\ status' = "running") =>
           LET step == Nth(1).val
               max == Nth(2).val
               min == Nth(3).val
               range == stack'[Len(stack')]
           IN  /\ stack' = Append(Below(3), range)
               /\ range.type = "List"
               /\ min < max => (Len(range.val) >= 1 /\ range.val[1] = Number(min))
               /\ \A i \in 1..Len(range.val) :
                     /\ range.val[i].type = "Number"
                     /\ min <= range.val[i].val
                     /\ range.val[i].val < max
               /\ \A i \in 1..(Len(range.val) - 1) :
                     range.val[i + 1].val - range.val[i].val = step]_vars

\* C21: get, set and del are bounds-checked: on a list of length n and an
\* integer index i they work on the element i when 0 <= i < n, and for
\* every other i, the negative ones included, they push Error
\* index-out-range and neither a list nor an element.
C21_BoundsChecked ==
    [][/\ (AtCommand("get") /\ Height >= 2 /\ Nth(1).type = "Number"
              /\ Nth(2).type = "List") =>
            LET i == Nth(1).val
                list == Nth(2).val
            IN  stack' = Append(Below(2),
                    IF 0 <= i /\ i < Len(list) THEN list[i + 1]
                    ELSE Error("index-out-range"))
       /\ (AtCommand("set") /\ Height >= 3 /\ Nth(2).type = "Number"
              /\ Nth(3).type = "List") =>
            LET i == Nth(2).val
                list == Nth(3).val
            IN  stack' = Append(Below(3),
                    IF 0 <= i /\ i < Len(list)
                    THEN List([k \in 1..Len(list) |-> IF k = i + 1 THEN Nth(1) ELSE list[k]])
                    ELSE Error("index-out-range"))
       /\ (AtCommand("del") /\ Height >= 2 /\ Nth(1).type = "Number"
              /\ Nth(2).type = "List") =>
            LET i == Nth(1).val
                list == Nth(2).val
            IN  stack' = Append(Below(2),
                    IF 0 <= i /\ i < Len(list)
                    THEN List([k \in 1..(Len(list) - 1) |->
                                  IF k <= i THEN list[k] ELSE list[k + 1]])
                    ELSE Error("index-out-range"))]_vars

\* main hands the program text to the evaluator: its tokens are those of
\* the new program frame
Submitted(text) == runs = 0 /\ runs' = 1 /\ program' = text

\* the escape procedure of the documentation: the backslash is consumed;
\* escaped n, t, r become the two characters backslash and n, t, r; any
\* other escaped character stands for itself
RECURSIVE Escaped(_)
Escaped(text) ==
    IF Len(text) = 0 THEN ""
    ELSE IF Char(text, 1) = "\\" /\ Len(text) >= 2
    THEN (IF Char(text, 2) \in {"n", "t", "r"} THEN "\\" \o Char(text, 2)
          ELSE Char(text, 2)) \o Escaped(SubSeq(text, 3, Len(text)))
    ELSE Char(text, 1) \o Escaped(Tail(text))

\* C22: backslash escapes are honoured for string literals: a parenthesis
\* after a backslash does not change the lexer's string nesting counter, so
\* the literal is one token and the next token is split off, and the String
\* pushed is the inner text after the escape procedure.
C22_Escapes ==
    [][\A text \in EscapeTexts :
          /\ Submitted("(" \o text \o ") 5") =>
                frames'[1].syntax = <<"(" \o text \o ")", "5">>
          /\ Finished("(" \o text \o ") 5")' =>
                stack' = <<String(Escaped(text)), Number(5)>>]_vars

\* C23: inside a comment brackets are inert: they leave the lexer's string
\* and list nesting counters unchanged, so the tokens after the comment are
\* split as if the comment held no bracket.
C23_CommentBrackets ==
    [][\A inner \in CommentBrackets :
          /\ Submitted("#a" \o inner \o "b# 5 (x)") =>
                frames'[1].syntax = <<"#a" \o inner \o "b#", "5", "(x)">>
          /\ Finished("#a" \o inner \o "b# 5 (x)")' =>
                stack' = <<Number(5), String("x")>>]_vars

\* C24: lexing is lossless inside a string literal: for a source text (t)
\* with balanced parentheses and no backslash the String pushed is t,
\* character for character, also when t holds a tab, a line feed, a
\* carriage return or U+3000.
C24_Lossless ==
    \A text \in WhitespaceTexts :
       Finished("(" \o text \o ")") => stack = <<String(text)>>

\* C25: white space (space, tab, CR, LF, U+3000) added between two tokens,
\* before the first or after the last token of a program with balanced
\* brackets and comments leaves the number of tokens and the text of each
\* token as they are.
C25_Whitespace ==
    [][\A tokens \in TokenLists : \A lead \in Margins : \A trail \in Margins :
          \A first \in Separators : \A second \in Separators :
             Submitted(Spaced(tokens, lead, first, second, trail)) =>
                frames'[1].syntax = tokens]_vars

\* a program with tabs, line breaks and U+3000 around its three tokens has
\* been split into these tokens, and the first has been evaluated
C25_Witness ==
    /\ program = Spaced(<<"5", "(a b)", "#c d#">>, "\n\t", "\r\n",
                        IdeographicSpace \o " ", "\n\t")
    /\ Len(frames) = 1
    /\ frames[1].syntax = <<"(a b)", "#c d#">>
    /\ stack = <<Number(5)>>

\* C26: a token that begins with error: pushes an Error whose code is the
\* text after that leading prefix, for every suffix, also one that holds
\* error: again.
C26_ErrorLiteral ==
    \A suffix \in ErrorCodes :
       Finished("error:" \o suffix) => stack = <<Error(suffix)>>

\* the binding of self, or <<>> when self is unbound
SelfBinding(mem) == IF "self" \in DOMAIN mem THEN <<mem["self"]>> ELSE <<>>

\* C27: method on an Object binds self to a copy of the object before the
\* method text is evaluated, and the binding is neither restored nor
\* removed afterwards: after any sequence of method calls, nested ones
\* included, self is bound to the receiver of the call started last.
C27_MethodSelf ==
    [][/\ (AtCommand("method") /\ Height >= 2 /\ Nth(2).type = "Object") =>
            /\ SelfBinding(memory') = <<Nth(2)>>
            /\ stack' = Below(2)
            /\ Len(frames') = Len(frames) + 1
            /\ frames'[Len(frames')] =
                   ProgramFrame(IF get_string(Nth(1)) \in DOMAIN Nth(2).val.object
                                THEN get_string(Nth(2).val.object[get_string(Nth(1))])
                                ELSE "")
       /\ ~(AtCommand("method") /\ Height >= 2 /\ Nth(2).type = "Object")
            /\ ~AtCommand("var") /\ ~AtCommand("free")
            => SelfBinding(memory') = SelfBinding(memory)
       /\ Finished(NestedMethods)' =>
            /\ SelfBinding(memory') = <<Object("b", Upsert(<<>>, "n", String("self")))>>
            /\ stack' = <<Object("b", Upsert(<<>>, "n", String("self")))>>]_vars

\* the method of a called the method of b, both have returned, and self is
\* still bound to b
C27_Witness ==
    /\ Finished(NestedMethods)
    /\ SelfBinding(memory) = <<Object("b", Upsert(<<>>, "n", String("self")))>>
    /\ memory["b"] = Object("b", Upsert(<<>>, "n", String("self")))

\* the table of the coercion to bool
Truth(v) ==
    CASE v.type = "String" -> Len(v.val) > 0
      [] v.type = "Number" -> v.val # 0
      [] v.type = "Bool" -> v.val
      [] v.type = "List" -> Len(v.val) > 0
      [] v.type = "Error" -> v.val = "true"
      [] v.type = "Object" -> Cardinality(DOMAIN v.val.object) = 0

\* C28: the coercion to bool follows one table: a String is true iff it is
\* not empty, a Number iff it is not 0, a Bool is itself, a List is true iff
\* it is not empty, an Error is the bool its code parses to (false when it
\* does not parse), an Object is true iff it has no property; cast to bool,
\* not, and, or, if and while all decide by this table.
C28_BoolTable ==
    [][/\ (AtCommand("not") /\ Height >= 1) =>
            stack' = Append(Below(1), Bool(~Truth(Nth(1))))
       /\ (AtCommand("and") /\ Height >= 2) =>
            stack' = Append(Below(2), Bool(Truth(Nth(2)) /\ Truth(Nth(1))))
       /\ (AtCommand("or") /\ Height >= 2) =>
            stack' = Append(Below(2), Bool(Truth(Nth(2)) \/ Truth(Nth(1))))
       /\ (AtCommand("cast") /\ Height >= 2 /\ Nth(1).type = "String"
              /\ Nth(1).val = "bool") =>
            stack' = Append(Below(2), Bool(Truth(Nth(2))))
       /\ (AtCommand("if") /\ Height >= 3) =>
            /\ stack' = Below(3)
            /\ frames'[Len(frames')] =
                   ProgramFrame(get_string(IF Truth(Nth(1)) THEN Nth(3) ELSE Nth(2)))
       /\ (AtFrame("while") /\ Top.phase = "cond" /\ Height >= 1) =>
            /\ stack' = Below(1)
            /\ IF Truth(Nth(1))
               THEN frames'[Len(frames')] = ProgramFrame(Top.code)
               ELSE Len(frames') = Len(frames) - 1]_vars

\* not has run on an Object that has a property: the Object counts as false
C28_Witness ==
    /\ Finished("[(p) [(x) 1]] [] instance not")
    /\ stack = <<Bool(TRUE)>>

\* the members of a class list after the type name, each as a list
Members(class) == [k \in 1..(Len(class) - 1) |-> get_list(class[k + 1])]

\* the positions in Members(class) of the single-element members
Slots(class) == {k \in 1..(Len(class) - 1) : Len(Members(class)[k]) = 1}

\* the Object the documentation describes: the i-th positional property
\* holds the i-th item of data, every other property its default value
Instantiated(class, data) ==
    LET members == Members(class)
        names == {get_string(members[k][1]) : k \in 1..Len(members)}
        member(name) == CHOOSE k \in 1..Len(members) : get_string(members[k][1]) = name
    IN  Object(get_string(class[1]),
               [name \in names |->
                   IF member(name) \in Slots(class)
                   THEN data[Cardinality({k \in Slots(class) : k <= member(name)})]
                   ELSE members[member(name)][2]])

\* what instance has to push for the class list and the data list
InstanceResult(class, data) ==
    IF Cardinality(Slots(class)) > Len(data) THEN Error("instance-shortage")
    ELSE Instantiated(class, data)

C30_Free ==
    /\ [][(AtCommand("free") /\ Height >= 1) =>
             /\ stack' = Below(1)
             /\ DOMAIN memory' = DOMAIN memory \ {get_string(Nth(1))}
             /\ \A name \in DOMAIN memory' : memory'[name] = memory[name]
             /\ get_string(Nth(1)) \notin DOMAIN memory => memory' = memory]_vars
    /\ Finished("1 (a) var 2 (b) var 3 (a) var (a) free a b")
          => stack = <<String("a"), Number(2)>> /\ DOMAIN memory = {"b"}
    /\ Finished("1 (a) var 2 (b) var 3 (a) var (zz) free a b")
          => stack = <<Number(3), Number(2)>> /\ DOMAIN memory = {"a", "b"}
    /\ Finished("1 (a) var (a) free (a) free a")
          => stack = <<String("a")>> /\ memory = <<>>

\* one of three bindings has been freed below two other stack values, and
\* the reads after it found the other two only
C30_Witness ==
    /\ Finished("7 (s) 1 (a) var 2 (b) var 3 (a) var (b) free a b")
    /\ stack = <<Number(7), String("s"), Number(3), String("b")>>
    /\ DOMAIN memory = {"a"}

\* C31: get-stack pushes one List equal to the whole stack as it was
\* before the command, bottom to top, and leaves the values below it
\* unchanged, so the height grows by exactly one.
C31_GetStack ==
    [][(AtToken /\ Token = "get-stack") =>
           stack' = Append(stack, List(stack))]_vars

\* the commands that change a value taken from the stack
Mutators == {"modify", "set", "append", "del", "insert"}

\* C32: values have copy semantics: a value pushed from a variable and then
\* changed with modify, set, append, del or insert leaves the environment
\* as it was, and modify pushes a new Object equal to the receiver except
\* that the named property is updated or inserted.
C32_CopySemantics ==
    /\ [][\A command \in Mutators : AtCommand(command) => memory' = memory]_vars
    /\ [][(AtCommand("modify") /\ Height >= 3 /\ Nth(3).type = "Object") =>
             /\ Len(stack') = Height - 2
             /\ SubSeq(stack', 1, Height - 3) = Below(3)
             /\ LET new == stack'[Height - 2]
                    old == Nth(3)
                    property == get_string(Nth(2))
                IN  /\ new.type = "Object"
                    /\ new.val.name = old.val.name
                    /\ DOMAIN new.val.object = DOMAIN old.val.object \cup {property}
                    /\ new.val.object[property] = Nth(1)
                    /\ \A x \in DOMAIN old.val.object \ {property} :
                          new.val.object[x] = old.val.object[x]]_vars
    /\ Finished("[1 2] (v) var 3 (w) var v 0 9 set v")
          => stack = <<List(<<Number(9), Number(2)>>), List(<<Number(1), Number(2)>>)>>
    /\ Finished("[(p) [(x) 1]] [] instance (v) var 3 (w) var v (x) 9 modify v")
          => /\ stack = <<Object("p", Upsert(<<>>, "x", Number(9))),
                          Object("p", Upsert(<<>>, "x", Number(1)))>>
             /\ memory["v"] = Object("p", Upsert(<<>>, "x", Number(1)))

\* the Object read from a variable got a further property on the stack, and
\* the variable read again gave the Object as it was bound
C32_Witness ==
    /\ Finished("[(p) [(x) 1]] [] instance (v) var 3 (w) var v (y) 9 modify v")
    /\ stack = <<Object("p", Upsert(Upsert(<<>>, "x", Number(1)), "y", Number(9))),
                 Object("p", Upsert(<<>>, "x", Number(1)))>>
    /\ memory["w"] = Number(3)

\* the evaluation carried on from the executor e to its end (for programs
\* of literals, lists and commands that run without a loop)
RECURSIVE Run(_)
Run(e) ==
    IF thread_step(e) = {} THEN e
    ELSE Run(CHOOSE next \in thread_step(e) : TRUE)

\* what an evaluation leaves behind, the standard output aside
Outcome(e) == [stack |-> e.stack, memory |-> e.memory, status |-> e.status]

OtherMode == IF mode = "Debug" THEN "Script" ELSE "Debug"

\* C33: the debug flag only gates output: from every state of a run,
\* first of all from the start of every program, the evaluation ends with
\* the same stack and the same environment in mode Debug and in mode Script.
C33_DebugGatesOutput ==
    /\ Outcome(Run(Self)) = Outcome(Run([Self EXCEPT !.mode = OtherMode]))
    /\ (frames = <<>> /\ runs = 1) => Outcome(Self) = Outcome(Run(Self))
    /\ Finished("(1 print 2 print) eval 3 print") =>
          /\ stack = <<>>
          /\ stdout = IF mode = "Debug"
                      THEN <<"[Output]: 1", "[Output]: 2", "[Output]: 3">>
                      ELSE <<"1", "2", "3">>

\* a script has printed in debug mode, with the flag's prefix, and left the
\* stack a run without the flag leaves
C33_Witness ==
    /\ Finished("7 (s) [1 (b)] print 9")
    /\ mode = "Debug"
    /\ stdout = <<"[Output]: [1 (b)]">>
    /\ stack = <<Number(7), String("s"), Number(9)>>

\* C34: a list literal is framed: when it is complete the stack is one
\* higher than it was before the literal and the values that were on the
\* stack before are unchanged, also for an inner program that pops more
\* values than it pushes.
C34_ListFramed ==
    /\ [][AtFrame("list") =>
             /\ Len(stack') = Top.old_len + 1
             /\ SubSeq(stack', 1, Top.old_len) = SubSeq(stack, 1, Top.old_len)]_vars
    /\ Finished("7 (s) [1 pop pop]")
          => stack = <<Number(7), String("s"), List(<<>>)>>
    /\ Finished("5 [pop pop]") => stack = <<Number(5), List(<<>>)>>

\* C35: map and filter are framed with respect to the caller's stack: the
\* values that lay below the three arguments are still there, unchanged
\* and in the same positions, when map and filter are complete, for every
\* body text, also one that pushes nothing.
C35_Traversals ==
    \A body \in Bodies, command \in Traversals :
       Finished(Traverse(body, command)) =>
          /\ Height >= 2
          /\ SubSeq(stack, 1, 2) = <<Number(7), String("s")>>

\* C36: instance pushes exactly one value on every path: when a member of
\* the class list is an empty list or an empty string (and the data list
\* is long enough for the positional slots), that value is Error
\* instance-default and no Object is pushed.
C36_InstanceDefault ==
    [][(AtCommand("instance") /\ Height >= 2 /\ Nth(1).type = "List"
          /\ Nth(2).type = "List") =>
           /\ Len(stack') = Height - 1
           /\ (/\ Len(Nth(2).val) >= 1
               /\ \E k \in 1..(Len(Nth(2).val) - 1) : Len(Members(Nth(2).val)[k]) = 0
               /\ Cardinality(Slots(Nth(2).val)) <= Len(Nth(1).val))
              => stack' = Append(Below(2), Error("instance-default"))]_vars

\* C37: write-file consumes both of its arguments on every path: after it
\* the path and the content are popped, and the only value it may have
\* pushed is the Error of the failed step (create-file or write-file).
C37_WriteFile ==
    [][(AtCommand("write-file") /\ Height >= 2) =>
           \/ stack' = Below(2)
           \/ stack' = Append(Below(2), Error("create-file"))
           \/ stack' = Append(Below(2), Error("write-file"))]_vars

\* the name cast knows the kind of a value by
KindName(v) ==
    CASE v.type = "Number" -> "number"
      [] v.type = "String" -> "string"
      [] v.type = "Bool" -> "bool"
      [] v.type = "List" -> "list"
      [] v.type = "Error" -> "error"
      [] OTHER -> ""

\* a cast of the value below the top to one of the kinds is about to run,
\* and the value is of that kind
CastsOwnKind(kinds) ==
    /\ AtCommand("cast") /\ Height >= 2
    /\ Nth(1) = String(KindName(Nth(2)))
    /\ KindName(Nth(2)) \in kinds

\* C38 as stated: cast to a value's own kind is the identity for every
\* value of kind number, string, bool, list or error.
C38_CastOwnKindAnyKind ==
    [][CastsOwnKind({"number", "string", "bool", "list", "error"})
          => stack' = Append(Below(2), Nth(2))]_vars

\* C38, amended: cast to a value's own kind is the identity for every value
\* of kind number, string, bool or list: it pushes a value of the same kind
\* and the same payload.
C38_CastOwnKind ==
    /\ [][CastsOwnKind({"number", "string", "bool", "list"})
             => stack' = Append(Below(2), Nth(2))]_vars
    /\ Finished("7 (s) [[2] true error:e] (list) cast")
          => stack = <<Number(7), String("s"),
                       List(<<List(<<Number(2)>>), Bool(TRUE), Error("e")>>)>>

\* a negative Number, above two other values, was cast to number
C38_Witness ==
    /\ Finished("7 (s) -3 (number) cast")
    /\ stack = <<Number(7), String("s"), Number(-3)>>

\* C39: every token the lexer emits is non-empty, for every text it is
\* given (the empty text, white space only and unbalanced brackets
\* included): no program under evaluation holds an empty token, so the
\* evaluator's access to a token's first and last character is in bounds.
C39_NonEmptyTokens ==
    /\ \A i \in 1..Len(frames) :
          frames[i].kind = "program" =>
             \A k \in 1..Len(frames[i].syntax) : Len(frames[i].syntax[k]) >= 1
    /\ AtToken => classify(Token, memory) # "panic"
    /\ status # "panicked"
    /\ \A text \in {"", " ", "   ", "\t\n"} :
          (program = text /\ runs = 1) => frames \in {<<>>, <<ProgramFrame("")>>}

\* a text of unbalanced brackets and doubled spaces was lexed into two
\* tokens, and both were evaluated
C39_Witness ==
    /\ Finished(") (  [1")
    /\ stack = <<String(") ("), String("[1")>>

====
